---- MODULE Spec2Model ----
(***************************************************************************)
(* nova-cognition: agent-config-sync.                                      *)
(*                                                                         *)
(* The model follows src/unnamed/part_004 (the current sync.ts of the      *)
(* agent-config-sync plugin): the two store queries, buildSystemDefaults,  *)
(* buildAgentsJson, JSON.stringify(data, null, 2) + "\n",                  *)
(* writeAgentsJsonAtomically and syncAgentsConfig.  The plugin entrypoint  *)
(* (index.ts: LISTEN loop, reconnection, reload signal) is not among the   *)
(* sources; the Reconciler part is written from spec.md sections 4.5, 5    *)
(* and 7 and is marked as such.                                            *)
(***************************************************************************)
EXTENDS Integers, Sequences, FiniteSets, TLC

(***************************************************************************)
(* Values                                                                  *)
(***************************************************************************)

\* A nullable text column holds a string or NULL.
NULL == "<null>"

\* A value that may be missing (a nullable array column, an optional
\* property, an optional argument) is None or Some(v); Undefined is the
\* missing property of JS.
None == <<>>
Some(v) == <<v>>
Undefined == None

\* Strings that are compared by the code, listed in ascending code-unit
\* order (the order of Array.prototype.sort() and of ORDER BY name).
Lexicon == <<"coder", "m1", "m2", "m3", "peer", "scout">>

Rank(s) == CHOOSE i \in 1..Len(Lexicon) : Lexicon[i] = s

StrLess(a, b) == Rank(a) < Rank(b)

Range(q) == {q[i] : i \in 1..Len(q)}

Max2(a, b) == IF a >= b THEN a ELSE b
Min2(a, b) == IF a <= b THEN a ELSE b

\* The elements of a finite set of Lexicon strings in ascending order.
RECURSIVE SortSet(_)
SortSet(S) ==
  IF S = {} THEN <<>>
  ELSE LET m == CHOOSE x \in S : \A y \in S : ~StrLess(y, x)
       IN <<m>> \o SortSet(S \ {m})

\* Array.prototype.sort() with the default comparator: insertion of each
\* element into the sorted remainder (duplicates are kept).
RECURSIVE InsertSorted(_, _)
InsertSorted(x, q) ==
  IF q = <<>> THEN <<x>>
  ELSE IF StrLess(x, Head(q)) THEN <<x>> \o q
  ELSE <<Head(q)>> \o InsertSorted(x, Tail(q))

RECURSIVE ArraySort(_)
ArraySort(q) ==
  IF q = <<>> THEN <<>> ELSE InsertSorted(Head(q), ArraySort(Tail(q)))

(***************************************************************************)
(* Store rows (part_004:16-29) and the two queries (part_004:55-68)        *)
(***************************************************************************)

\* AgentRow: name, model, fallback_models (Some(array) or None for null),
\* thinking, instance_type, allowed_subagents (Some(array) or None).
AgentRowOf(name, model, fallbacks, thinking, itype, allowed) ==
  [name |-> name, model |-> model, fallback_models |-> fallbacks,
   thinking |-> thinking, instance_type |-> itype,
   allowed_subagents |-> allowed]

\* SystemConfigRow: key, value (text: a sequence of characters), value_type.
SystemConfigRowOf(key, value, vtype) ==
  [key |-> key, value |-> value, value_type |-> vtype]

\* AGENTS_QUERY: primary and subagent rows that have a model, ORDER BY name.
RECURSIVE OrderByName(_)
OrderByName(S) ==
  IF S = {} THEN <<>>
  ELSE LET r == CHOOSE x \in S : \A y \in S : ~StrLess(y.name, x.name)
       IN <<r>> \o OrderByName(S \ {r})

AGENTS_QUERY(table) ==
  OrderByName({r \in table : /\ r.instance_type \in {"primary", "subagent"}
                             /\ r.model # NULL})

\* SYSTEM_CONFIG_QUERY: the rows of the two whitelisted keys.  The query has
\* no ORDER BY; keys are unique, so buildSystemDefaults assigns each field at
\* most once and the row order does not reach the result.
RECURSIVE RowsInSomeOrder(_)
RowsInSomeOrder(S) ==
  IF S = {} THEN <<>>
  ELSE LET r == CHOOSE x \in S : TRUE IN <<r>> \o RowsInSomeOrder(S \ {r})

SYSTEM_CONFIG_QUERY(table) ==
  RowsInSomeOrder({r \in table :
                     r.key \in {"max_spawn_depth", "max_concurrent_subagents"}})

(***************************************************************************)
(* parseInt(text, 10)                                                      *)
(***************************************************************************)

\* A number is Some(n); NaN is None.
NaN == None

DigitChars == <<"0", "1", "2", "3", "4", "5", "6", "7", "8", "9">>

IsDigit(c) == \E i \in 1..10 : DigitChars[i] = c

DigitVal(c) == (CHOOSE i \in 1..10 : DigitChars[i] = c) - 1

\* Leading white space is skipped.
RECURSIVE SkipSpace(_)
SkipSpace(t) ==
  IF t # <<>> /\ Head(t) = " " THEN SkipSpace(Tail(t)) ELSE t

\* The longest prefix of digits, read as a decimal number; what follows the
\* digits is ignored.
RECURSIVE DigitsValue(_, _)
DigitsValue(t, acc) ==
  IF t # <<>> /\ IsDigit(Head(t))
  THEN DigitsValue(Tail(t), acc * 10 + DigitVal(Head(t)))
  ELSE acc

parseInt(text) ==
  LET t == SkipSpace(text)
      neg == t # <<>> /\ Head(t) = "-"
      u == IF t # <<>> /\ Head(t) \in {"-", "+"} THEN Tail(t) ELSE t
  IN IF u = <<>> \/ ~IsDigit(Head(u)) THEN NaN
     ELSE IF neg THEN Some(0 - DigitsValue(u, 0)) ELSE Some(DigitsValue(u, 0))

(***************************************************************************)
(* buildSystemDefaults (part_004:79-140)                                   *)
(***************************************************************************)

NoDefaults == [maxSpawnDepth |-> Undefined, maxConcurrent |-> Undefined]

\* The iteration with max_spawn_depth as the only recognized key.
ApplyConfigRow_DepthOnly(defaults, row) ==
  IF row.key = "max_spawn_depth" THEN
    IF row.value_type # "integer" THEN defaults
    ELSE LET parsed == parseInt(row.value)
         IN IF parsed = NaN THEN defaults
            ELSE [defaults EXCEPT
                    !.maxSpawnDepth = Some(Max2(1, Min2(5, parsed[1])))]
  ELSE defaults

\* The iteration with the parsed depth assigned as it is, not clamped.
ApplyConfigRow_NoClamp(defaults, row) ==
  IF row.key = "max_spawn_depth" THEN
    IF row.value_type # "integer" THEN defaults
    ELSE LET parsed == parseInt(row.value)
         IN IF parsed = NaN THEN defaults
            ELSE [defaults EXCEPT !.maxSpawnDepth = parsed]
  ELSE IF row.key = "max_concurrent_subagents" THEN
    IF row.value_type # "integer" THEN defaults
    ELSE LET parsed == parseInt(row.value)
         IN IF parsed = NaN THEN defaults
            ELSE [defaults EXCEPT !.maxConcurrent = parsed]
  ELSE defaults

\* One iteration of the loop: the switch on row.key.
ApplyConfigRow(defaults, row) ==
  IF row.key = "max_spawn_depth" THEN
    IF row.value_type # "integer" THEN defaults
    ELSE LET parsed == parseInt(row.value)
         IN IF parsed = NaN THEN defaults
            ELSE [defaults EXCEPT
                    !.maxSpawnDepth = Some(Max2(1, Min2(5, parsed[1])))]
  ELSE IF row.key = "max_concurrent_subagents" THEN
    IF row.value_type # "integer" THEN defaults
    ELSE LET parsed == parseInt(row.value)
         IN IF parsed = NaN THEN defaults
            ELSE [defaults EXCEPT !.maxConcurrent = parsed]
  ELSE defaults

\* The loop with the try around it instead of inside it: the first row
\* that is not applied ends it, and the rows after it are not looked at.
RECURSIVE FoldConfigRows_StopAtSkipped(_, _)
FoldConfigRows_StopAtSkipped(defaults, rows) ==
  IF rows = <<>> THEN defaults
  ELSE IF ApplyConfigRow(defaults, Head(rows)) = defaults THEN defaults
  ELSE FoldConfigRows_StopAtSkipped(ApplyConfigRow(defaults, Head(rows)),
                                    Tail(rows))

RECURSIVE FoldConfigRows(_, _)
FoldConfigRows(defaults, rows) ==
  IF rows = <<>> THEN defaults
  ELSE FoldConfigRows(ApplyConfigRow(defaults, Head(rows)), Tail(rows))

buildSystemDefaults(rows) == FoldConfigRows(NoDefaults, rows)

(***************************************************************************)
(* buildAgentsJson (part_004:145-217)                                      *)
(***************************************************************************)

\* hasFallbacks without the test of the length.
hasFallbacks_NonNull(row) == row.fallback_models # None

\* Array.isArray(row.fallback_models) && row.fallback_models.length > 0
hasFallbacks(row) ==
  row.fallback_models # None /\ Len(row.fallback_models[1]) > 0

\* The entry pushed to the list for one row.  The model field is the bare
\* model identity (bare = TRUE) or the pair {primary, fallbacks}.
ListEntry(row) ==
  [id |-> row.name,
   model |-> IF hasFallbacks(row)
             THEN [bare |-> FALSE, primary |-> row.model,
                   fallbacks |-> row.fallback_models[1]]
             ELSE [bare |-> TRUE, primary |-> row.model, fallbacks |-> <<>>],
   subagents |-> IF row.allowed_subagents # None
                    /\ Len(row.allowed_subagents[1]) > 0
                 THEN Some([allowAgents |-> ArraySort(row.allowed_subagents[1])])
                 ELSE Undefined]

\* allModels without the loop over the fallbacks.
AllModels_PrimaryOnly(rows) == {rows[i].model : i \in 1..Len(rows)}

\* The Set allModels after the loop.
AllModels(rows) ==
  UNION {{rows[i].model} \cup
         (IF hasFallbacks(rows[i]) THEN Range(rows[i].fallback_models[1])
          ELSE {})
         : i \in 1..Len(rows)}

\* The subagents block of the defaults section; Undefined when it would
\* have no key.
SubagentsBlock(systemDefaults) ==
  IF systemDefaults = Undefined THEN Undefined
  ELSE IF /\ systemDefaults[1].maxSpawnDepth = Undefined
          /\ systemDefaults[1].maxConcurrent = Undefined
       THEN Undefined
       ELSE Some([maxSpawnDepth |-> systemDefaults[1].maxSpawnDepth,
                  maxConcurrent |-> systemDefaults[1].maxConcurrent])

\* buildAgentsJson with the entries sorted by id before they are returned.
buildAgentsJson_SortedList(rows, systemDefaults) ==
  [agents |->
    [defaults |-> [models |-> SortSet(AllModels(rows)),
                   subagents |-> SubagentsBlock(systemDefaults)],
     list |-> LET sorted == OrderByName(Range(rows))
              IN [i \in 1..Len(sorted) |-> ListEntry(sorted[i])]]]

\* systemDefaults is the optional second argument: Some(defaults) or None.
buildAgentsJson(rows, systemDefaults) ==
  [agents |->
    [defaults |-> [models |-> SortSet(AllModels(rows)),
                   subagents |-> SubagentsBlock(systemDefaults)],
     list |-> [i \in 1..Len(rows) |-> ListEntry(rows[i])]]]

(***************************************************************************)
(* JSON.stringify(data, null, 2) + "\n" (part_004:265, 288)                *)
(*                                                                         *)
(* The text is a sequence of lines; a line is its indentation depth and    *)
(* its tokens.  Properties are written in insertion order and a property   *)
(* that is undefined is left out.                                          *)
(***************************************************************************)

Line(ind, toks) == [ind |-> ind, toks |-> toks]

\* "key": in front of the first line of a value.  The lines of the value
\* are worked out once and bound to ls.
WithKey(key, lines) ==
  CHOOSE keyed \in {<<Line(ls[1].ind, <<"key", key>> \o ls[1].toks)>> \o Tail(ls)
                      : ls \in {lines}} : TRUE

\* The separating comma after a value that is not the last of its container.
WithComma(lines, more) ==
  IF more
  THEN SubSeq(lines, 1, Len(lines) - 1)
       \o <<Line(lines[Len(lines)].ind, lines[Len(lines)].toks \o <<",">>)>>
  ELSE lines

RECURSIVE Join(_)
Join(parts) == IF parts = <<>> THEN <<>> ELSE Head(parts) \o Join(Tail(parts))

\* The values of a container, each with its comma.
Separated(values) ==
  Join([i \in 1..Len(values) |-> WithComma(values[i], i < Len(values))])

StringLines(ind, s) == <<Line(ind, <<"string", s>>)>>

NumberLines(ind, n) == <<Line(ind, <<"number", ToString(n)>>)>>

\* A container: its brackets on lines of their own around its values, or
\* the two brackets together when it has none.
Bracketed(ind, open, values, close) ==
  IF values = <<>> THEN <<Line(ind, <<open \o close>>)>>
  ELSE <<Line(ind, <<open>>)>> \o Separated(values) \o <<Line(ind, <<close>>)>>

\* members: the sequence of the lines of each property, key included,
\* worked out once and bound to ms.
ObjectLines(ind, members) ==
  CHOOSE lines \in {Bracketed(ind, "{", ms, "}") : ms \in {members}} : TRUE

ArrayLines(ind, items) ==
  CHOOSE lines \in {Bracketed(ind, "[", is, "]") : is \in {items}} : TRUE

\* The properties that are defined, in the order given.
Defined(props) == SelectSeq(props, LAMBDA p : p # <<>>)

ModelsLines(ind, models) ==
  ObjectLines(ind, [i \in 1..Len(models) |->
                      WithKey(models[i], ObjectLines(ind + 1, <<>>))])

StringArrayLines(ind, strs) ==
  ArrayLines(ind, [i \in 1..Len(strs) |-> StringLines(ind + 1, strs[i])])

DefaultsSubagentsLines(ind, block) ==
  ObjectLines(ind, Defined(<<
    IF block.maxSpawnDepth = Undefined THEN <<>>
    ELSE WithKey("maxSpawnDepth", NumberLines(ind + 1, block.maxSpawnDepth[1])),
    IF block.maxConcurrent = Undefined THEN <<>>
    ELSE WithKey("maxConcurrent", NumberLines(ind + 1, block.maxConcurrent[1]))
  >>))

DefaultsLines(ind, defaults) ==
  ObjectLines(ind, Defined(<<
    WithKey("models", ModelsLines(ind + 1, defaults.models)),
    IF defaults.subagents = Undefined THEN <<>>
    ELSE WithKey("subagents",
                 DefaultsSubagentsLines(ind + 1, defaults.subagents[1]))
  >>))

ModelLines(ind, model) ==
  IF model.bare THEN StringLines(ind, model.primary)
  ELSE ObjectLines(ind, <<
         WithKey("primary", StringLines(ind + 1, model.primary)),
         WithKey("fallbacks", StringArrayLines(ind + 1, model.fallbacks))
       >>)

EntryLines(ind, entry) ==
  ObjectLines(ind, Defined(<<
    WithKey("id", StringLines(ind + 1, entry.id)),
    WithKey("model", ModelLines(ind + 1, entry.model)),
    IF entry.subagents = Undefined THEN <<>>
    ELSE WithKey("subagents",
           ObjectLines(ind + 1, <<
             WithKey("allowAgents",
                     StringArrayLines(ind + 2, entry.subagents[1].allowAgents))
           >>))
  >>))

ListLines(ind, list) ==
  ArrayLines(ind, [i \in 1..Len(list) |-> EntryLines(ind + 1, list[i])])

\* Every line ends with a line feed: the ones JSON.stringify puts between
\* the lines and the "\n" appended to the last one.
Stringify(data) ==
  CHOOSE text \in {
    ObjectLines(0, <<
      WithKey("agents",
        ObjectLines(1, <<
          WithKey("defaults", DefaultsLines(2, d.agents.defaults)),
          WithKey("list", ListLines(2, d.agents.list))
        >>))
    >>) : d \in {data}} : TRUE

(***************************************************************************)
(* Bounds and the store contents the model draws from                      *)
(***************************************************************************)

\* Writes to the watched tables.
MaxWrites == 1
\* Injected failures: a failed query, a failed file operation, a crash,
\* a lost connection.  A refused reconnection is not counted: the delay
\* it changes stops at MaxDelay.
MaxFaults == 2
\* Direct calls of syncAgentsConfig.
MaxCalls == 2
\* Longest prefix a failed or interrupted writeFile leaves behind, short of
\* the whole text.
MaxPartial == 1

CoderRow == AgentRowOf("coder", "m1", Some(<<"m2">>), NULL, "primary", None)
ScoutRow == AgentRowOf("scout", "m3", None, "high", "subagent", None)
\* Rows the query leaves out: a peer, and an agent without a model.
PeerRow == AgentRowOf("peer", "m2", None, NULL, "peer", None)

AgentTables == {{CoderRow, PeerRow}, {CoderRow, ScoutRow}}

DepthRow(text) == SystemConfigRowOf("max_spawn_depth", text, "integer")

ConfigTables == {{}, {DepthRow(<<"3">>)}}

InitialAgents == {CoderRow, PeerRow}
InitialConfig == {DepthRow(<<"3">>)}

\* The text syncAgentsConfig builds when both queries answer from these
\* tables (part_004:281-288).
ContentOf(agents, config) ==
  Stringify(buildAgentsJson(
    AGENTS_QUERY(agents),
    Some(buildSystemDefaults(SYSTEM_CONFIG_QUERY(config)))))

\* Reconnection backoff: 5 s doubling up to 60 s.
InitialDelay == 5
MaxDelay == 60

(***************************************************************************)
(* State                                                                   *)
(***************************************************************************)

VARIABLES
  agentsTable,       \* the agents table
  configTable,       \* the agent_system_config table
  writes,            \* writes to the two tables so far
  dirExists,         \* path.dirname(outputPath) exists
  target,            \* the file at outputPath: None, or Some(text)
  tmpFiles,          \* the *.tmp files in the directory: [name, content]
  uuids,             \* crypto.randomUUID() values drawn so far
  pc,                \* where the running syncAgentsConfig call is
  rows,              \* its local: the agent rows
  systemConfigRows,  \* its local: the system config rows
  tmpFile,           \* writeAgentsJsonAtomically's local: the temporary name
  result,            \* how the call ended: "true", "false", "threw"
  failedStep,        \* the step of the call that failed, "none" if none
  configFailed,      \* fetchSystemConfig caught a query error in this call
  faults,            \* failures injected so far
  calls,             \* direct calls so far
  preTarget,         \* target when the call started
  preTmpFiles,       \* tmpFiles when the call started
  lastSync,          \* what the last call that returned had read
  started,           \* the Reconciler has started
  rstate,            \* "Disconnected", "Listening" or "Shutdown"
  connAlive,         \* the subscription connection delivers notifications
  inbox,             \* notifications delivered and not yet handled
  pendingRebuild,    \* an event was coalesced into the running cycle
  reconnectDelay,    \* seconds before the next reconnection attempt
  inFlight,          \* rebuild cycles in flight
  reloadSent,        \* the last completed cycle sent the reload signal
  cycleReason,       \* why the running or last cycle started
  missedWrite,       \* a write since the last connect raised no event
  recovered,         \* some reconnect followed a write that raised no event
  startupDone,       \* the cycle started at startup has completed
  argRows,           \* a direct call of the builder: the agent rows passed
  argConfig,         \* the system config rows passed
  builtDefaults,     \* what buildSystemDefaults returned, None before
  builtData,         \* what buildAgentsJson returned, None before
  texts,             \* the serializations made so far, in order
  buildThrew,        \* a builder function threw
  agent_chat_processed, \* the delivery records: rows of the table
  now,               \* the time of the store, in ticks
  listenerOp,        \* the operation each listener has in hand, None if none
  outcome,           \* each listener's last operation and how it ended
  observed,          \* the states each (message, recipient) pair has taken
  agent_chat,        \* the message log: rows of the table
  chatNow,           \* the time of the message log, in ticks
  last_processed_id, \* the cursor each polling agent keeps
  pollArgs,          \* the arguments of the last query, None before
  polled,            \* the rows the last query returned, in order
  delivered,         \* the ids each polling agent has been given, in order
  agent_jobs,        \* the jobs: rows of the table
  jobOps,            \* job operations run so far
  jobOutcome,        \* the last job operation and how it ended, None before
  notified,          \* the jobs whose completion message was inserted, in order
  hookPc,            \* where the agent-config-db hook is
  pool,              \* the hook's connection pool was created (not null)
  agents,            \* the agents table as the hook's query sees it
  event,             \* the event the hook was called with, as it is now
  received,          \* the same event as it was when the hook was called
  agentName,         \* handler's local: the trimmed agentId
  lookups,           \* calls of loadFromDatabase for this event
  caught,            \* loadFromDatabase caught an error for this event
  pubPc,             \* where each concurrent syncAgentsConfig call is
  pubRows,           \* its local: the agent rows
  pubConfigRows,     \* its local: the system config rows
  pubTmpFile,        \* writeAgentsJsonAtomically's local: the temporary name
  pubOffset,         \* how much of the text its writeFile has written
  pubResult,         \* how the call ended: "true", "false", "threw"
  existing           \* the file at outputPath before the concurrent calls

storeVars == <<agentsTable, configTable, writes>>
fileVars == <<dirExists, target, tmpFiles, uuids>>
callVars == <<pc, rows, systemConfigRows, tmpFile, result, failedStep,
              configFailed, preTarget, preTmpFiles>>
callerVars == <<calls, lastSync>>
builderVars == <<argRows, argConfig, builtDefaults, builtData, texts,
                 buildThrew>>
deliveryVars == <<agent_chat_processed, now, listenerOp, outcome, observed>>
chatVars == <<agent_chat, chatNow>>
pollVars == <<last_processed_id, pollArgs, polled, delivered>>
jobVars == <<agent_jobs, jobOps, jobOutcome, notified>>
hookVars == <<hookPc, pool, agents, event, received, agentName, lookups,
              caught>>
pubVars == <<pubPc, pubRows, pubConfigRows, pubTmpFile, pubOffset, pubResult,
             existing>>
laterVars == <<jobVars, hookVars, pubVars>>
elseVars == <<deliveryVars, chatVars, pollVars, laterVars>>
directVars == <<callerVars, builderVars, elseVars>>
reconVars == <<started, rstate, connAlive, inbox, pendingRebuild,
               reconnectDelay, inFlight, reloadSent, cycleReason, missedWrite,
               recovered, startupDone>>
outerVars == <<directVars, reconVars>>
\* The variables of the configuration sync and of its callers.
syncAllVars == <<storeVars, fileVars, callVars, faults, callerVars,
                 builderVars, reconVars>>
vars == <<storeVars, fileVars, callVars, faults, directVars, reconVars>>

\* newContent (part_004:286-288), and the same text as `content` in
\* writeAgentsJsonAtomically (part_004:265).
NewContent ==
  Stringify(buildAgentsJson(rows, Some(buildSystemDefaults(systemConfigRows))))

Prefix(text, k) == SubSeq(text, 1, k)

TmpContent(name) == (CHOOSE f \in tmpFiles : f.name = name).content

TmpExists(name) == \E f \in tmpFiles : f.name = name

\* The directory after `text` was written to the file `name`.
WithTmp(name, text) ==
  {f \in tmpFiles : f.name # name} \cup {[name |-> name, content |-> text]}

CanFail == faults < MaxFaults

(***************************************************************************)
(* The store: an administrative write to one of the two tables             *)
(***************************************************************************)

WriteAgentsTable ==
  /\ writes < MaxWrites
  /\ \E t \in AgentTables \ {agentsTable} : agentsTable' = t
  /\ writes' = writes + 1
  /\ UNCHANGED configTable

WriteConfigTable ==
  /\ writes < MaxWrites
  /\ \E t \in ConfigTables \ {configTable} : configTable' = t
  /\ writes' = writes + 1
  /\ UNCHANGED agentsTable

(***************************************************************************)
(* syncAgentsConfig (part_004:277-302), one step per awaited operation     *)
(***************************************************************************)

\* The state of a call that has just been entered.
EnterSync ==
  /\ pc' = "fetchAgents"
  /\ rows' = <<>>
  /\ systemConfigRows' = <<>>
  /\ tmpFile' = 0
  /\ result' = "none"
  /\ failedStep' = "none"
  /\ configFailed' = FALSE
  /\ preTarget' = target
  /\ preTmpFiles' = tmpFiles

\* fetchAgentRows changed to catch a query error and answer no rows, the way
\* fetchSystemConfig does.
FetchAgentRows_CatchEmpty ==
  /\ pc = "fetchAgents"
  /\ \/ /\ rows' = AGENTS_QUERY(agentsTable)
        /\ UNCHANGED <<failedStep, faults>>
     \/ /\ CanFail
        /\ faults' = faults + 1
        /\ rows' = <<>>
        /\ failedStep' = "agentsQuery"
  /\ pc' = "fetchConfig"
  /\ UNCHANGED <<storeVars, fileVars, systemConfigRows, tmpFile, result,
                 configFailed, preTarget, preTmpFiles, outerVars>>

\* fetchAgentRows (part_004:224-227): a query error rejects, and with it
\* Promise.all and the call.
FetchAgentRows ==
  /\ pc = "fetchAgents"
  /\ \/ /\ rows' = AGENTS_QUERY(agentsTable)
        /\ pc' = "fetchConfig"
        /\ UNCHANGED <<result, failedStep, faults>>
     \/ /\ CanFail
        /\ faults' = faults + 1
        /\ pc' = "done"
        /\ result' = "threw"
        /\ failedStep' = "agentsQuery"
        /\ UNCHANGED rows
  /\ UNCHANGED <<storeVars, fileVars, systemConfigRows, tmpFile, configFailed,
                 preTarget, preTmpFiles, outerVars>>

\* fetchSystemConfig changed to answer no rows without asking the store.
FetchSystemConfig_NoQuery ==
  /\ pc = "fetchConfig"
  /\ systemConfigRows' = <<>>
  /\ pc' = "readFile"
  /\ UNCHANGED <<storeVars, fileVars, rows, tmpFile, result, failedStep,
                 configFailed, preTarget, preTmpFiles, faults, outerVars>>

\* fetchSystemConfig (part_004:233-246): a query error is caught and the
\* rows are the empty array.
FetchSystemConfig ==
  /\ pc = "fetchConfig"
  /\ \/ /\ systemConfigRows' = SYSTEM_CONFIG_QUERY(configTable)
        /\ UNCHANGED <<configFailed, faults>>
     \/ /\ CanFail
        /\ faults' = faults + 1
        /\ systemConfigRows' = <<>>
        /\ configFailed' = TRUE
  /\ pc' = "readFile"
  /\ UNCHANGED <<storeVars, fileVars, rows, tmpFile, result, failedStep,
                 preTarget, preTmpFiles, outerVars>>

\* The comparison changed to take any existing file as up to date.
CompareExisting_SkipWhenPresent ==
  /\ pc = "readFile"
  /\ IF target # None
     THEN pc' = "done" /\ result' = "false"
     ELSE pc' = "mkdir" /\ UNCHANGED result
  /\ UNCHANGED <<storeVars, fileVars, rows, systemConfigRows, tmpFile,
                 failedStep, configFailed, preTarget, preTmpFiles, faults,
                 outerVars>>

\* The comparison left out: every call writes.
CompareExisting_AlwaysWrite ==
  /\ pc = "readFile"
  /\ pc' = "mkdir"
  /\ UNCHANGED <<storeVars, fileVars, rows, systemConfigRows, tmpFile, result,
                 failedStep, configFailed, preTarget, preTmpFiles, faults,
                 outerVars>>

\* The comparison with the existing file (part_004:290-298).  readFile
\* rejects when there is no file, and the catch lets that pass; the catch has
\* no condition, and a missing file is the one rejection taken up here.
CompareExisting ==
  /\ pc = "readFile"
  /\ IF target # None /\ target[1] = NewContent
     THEN pc' = "done" /\ result' = "false"
     ELSE pc' = "mkdir" /\ UNCHANGED result
  /\ UNCHANGED <<storeVars, fileVars, rows, systemConfigRows, tmpFile,
                 failedStep, configFailed, preTarget, preTmpFiles, faults,
                 outerVars>>

(***************************************************************************)
(* writeAgentsJsonAtomically (part_004:253-269)                            *)
(***************************************************************************)

\* fs.promises.mkdir(dir, {recursive: true}), then the temporary name with
\* a fresh UUID (part_004:257-263).  mkdir of an existing directory succeeds.
Mkdir ==
  /\ pc = "mkdir"
  /\ \/ /\ dirExists' = TRUE
        /\ uuids' = uuids + 1
        /\ tmpFile' = uuids + 1
        /\ pc' = "writeFile"
        /\ UNCHANGED <<result, failedStep, faults>>
     \/ /\ ~dirExists
        /\ CanFail
        /\ faults' = faults + 1
        /\ pc' = "done"
        /\ result' = "threw"
        /\ failedStep' = "mkdir"
        /\ UNCHANGED <<dirExists, uuids, tmpFile>>
  /\ UNCHANGED <<storeVars, target, tmpFiles, rows, systemConfigRows,
                 configFailed, preTarget, preTmpFiles, outerVars>>

\* The lengths of text a failed or interrupted write can leave in the file.
PartialLengths(text) == 0..Min2(MaxPartial, Len(text) - 1)

\* writeFile changed to write to filePath itself, with no temporary file
\* and no rename.
WriteFile_InPlace ==
  /\ pc = "writeFile"
  /\ \/ /\ target' = Some(NewContent)
        /\ result' = "true"
        /\ UNCHANGED <<failedStep, faults>>
     \/ /\ CanFail
        /\ faults' = faults + 1
        /\ \/ UNCHANGED target
           \/ \E k \in PartialLengths(NewContent) :
                target' = Some(Prefix(NewContent, k))
        /\ result' = "threw"
        /\ failedStep' = "writeFile"
  /\ pc' = "done"
  /\ UNCHANGED <<storeVars, dirExists, tmpFiles, uuids, rows, systemConfigRows,
                 tmpFile, configFailed, preTarget, preTmpFiles, outerVars>>

\* fs.promises.writeFile(tmpFile, content) (part_004:267) opens the file,
\* creating it, and writes the text; it can fail before the file exists or
\* with only a prefix of the text written.
WriteFile ==
  /\ pc = "writeFile"
  /\ \/ /\ tmpFiles' = WithTmp(tmpFile, NewContent)
        /\ pc' = "rename"
        /\ UNCHANGED <<result, failedStep, faults>>
     \/ /\ CanFail
        /\ faults' = faults + 1
        /\ \/ UNCHANGED tmpFiles
           \/ \E k \in PartialLengths(NewContent) :
                tmpFiles' = WithTmp(tmpFile, Prefix(NewContent, k))
        /\ pc' = "done"
        /\ result' = "threw"
        /\ failedStep' = "writeFile"
  /\ UNCHANGED <<storeVars, dirExists, target, uuids, rows, systemConfigRows,
                 tmpFile, configFailed, preTarget, preTmpFiles, outerVars>>

\* rename changed to a copy onto filePath followed by an unlink: a copy
\* that fails has already overwritten the start of the file.
Rename_Copy ==
  /\ pc = "rename"
  /\ \/ /\ target' = Some(TmpContent(tmpFile))
        /\ tmpFiles' = {f \in tmpFiles : f.name # tmpFile}
        /\ pc' = "done"
        /\ result' = "true"
        /\ UNCHANGED <<failedStep, faults>>
     \/ /\ CanFail
        /\ faults' = faults + 1
        /\ \E k \in PartialLengths(TmpContent(tmpFile)) :
             target' = Some(Prefix(TmpContent(tmpFile), k))
        /\ pc' = "done"
        /\ result' = "threw"
        /\ failedStep' = "rename"
        /\ UNCHANGED tmpFiles
  /\ UNCHANGED <<storeVars, dirExists, uuids, rows, systemConfigRows, tmpFile,
                 configFailed, preTarget, preTmpFiles, outerVars>>

\* rename with its rejection swallowed: the call goes on and returns true.
Rename_IgnoreError ==
  /\ pc = "rename"
  /\ \/ /\ target' = Some(TmpContent(tmpFile))
        /\ tmpFiles' = {f \in tmpFiles : f.name # tmpFile}
        /\ UNCHANGED <<failedStep, faults>>
     \/ /\ CanFail
        /\ faults' = faults + 1
        /\ failedStep' = "rename"
        /\ UNCHANGED <<target, tmpFiles>>
  /\ pc' = "done"
  /\ result' = "true"
  /\ UNCHANGED <<storeVars, dirExists, uuids, rows, systemConfigRows, tmpFile,
                 configFailed, preTarget, preTmpFiles, outerVars>>

\* fs.promises.rename(tmpFile, filePath) (part_004:268): the file at
\* filePath becomes the temporary file in one step, or the rename fails and
\* both stay as they are.
Rename ==
  /\ pc = "rename"
  /\ \/ /\ target' = Some(TmpContent(tmpFile))
        /\ tmpFiles' = {f \in tmpFiles : f.name # tmpFile}
        /\ pc' = "done"
        /\ result' = "true"
        /\ UNCHANGED <<failedStep, faults>>
     \/ /\ CanFail
        /\ faults' = faults + 1
        /\ pc' = "done"
        /\ result' = "threw"
        /\ failedStep' = "rename"
        /\ UNCHANGED <<target, tmpFiles>>
  /\ UNCHANGED <<storeVars, dirExists, uuids, rows, systemConfigRows, tmpFile,
                 configFailed, preTarget, preTmpFiles, outerVars>>

\* The process dies in the middle of a call.  A writeFile that was under
\* way leaves no file, or a file holding a prefix of the text.
Crash ==
  /\ pc \in {"fetchAgents", "fetchConfig", "readFile", "mkdir", "writeFile",
             "rename"}
  /\ CanFail
  /\ faults' = faults + 1
  /\ IF pc = "writeFile"
     THEN \/ UNCHANGED tmpFiles
          \/ \E k \in PartialLengths(NewContent) :
               tmpFiles' = WithTmp(tmpFile, Prefix(NewContent, k))
     ELSE UNCHANGED tmpFiles
  /\ pc' = "crashed"
  /\ UNCHANGED <<storeVars, dirExists, target, uuids, rows, systemConfigRows,
                 tmpFile, result, failedStep, configFailed, preTarget,
                 preTmpFiles, outerVars>>

(***************************************************************************)
(* A caller that runs one syncAgentsConfig at a time                       *)
(***************************************************************************)

Call ==
  /\ pc \in {"idle", "crashed"}
  /\ calls < MaxCalls
  /\ calls' = calls + 1
  /\ EnterSync
  /\ UNCHANGED <<storeVars, fileVars, faults, lastSync, builderVars,
                 elseVars, reconVars>>

\* The caller takes the result; a call that returned leaves what it read.
Return ==
  /\ pc = "done"
  /\ pc' = "idle"
  /\ lastSync' = IF result \in {"true", "false"}
                 THEN Some(<<rows, systemConfigRows>>)
                 ELSE None
  /\ UNCHANGED <<storeVars, fileVars, rows, systemConfigRows, tmpFile, result,
                 failedStep, configFailed, preTarget, preTmpFiles, faults,
                 calls, builderVars, elseVars, reconVars>>

\* The tables as installed.  The file is missing, or it is a text an
\* earlier run published: from these tables, or from a system config table
\* that was still empty.
SyncInit ==
  /\ agentsTable = InitialAgents
  /\ configTable = InitialConfig
  /\ writes = 0
  /\ target \in {None, Some(ContentOf(InitialAgents, InitialConfig)),
                 Some(ContentOf(InitialAgents, {}))}
  /\ dirExists \in IF target = None THEN BOOLEAN ELSE {TRUE}
  /\ tmpFiles = {}
  /\ uuids = 0
  /\ pc = "idle"
  /\ rows = <<>>
  /\ systemConfigRows = <<>>
  /\ tmpFile = 0
  /\ result = "none"
  /\ failedStep = "none"
  /\ configFailed = FALSE
  /\ faults = 0
  /\ calls = 0
  /\ preTarget = target
  /\ preTmpFiles = {}
  /\ lastSync = None
  /\ started = FALSE
  /\ rstate = "Disconnected"
  /\ connAlive = FALSE
  /\ inbox = 0
  /\ pendingRebuild = FALSE
  /\ reconnectDelay = InitialDelay
  /\ inFlight = 0
  /\ reloadSent = FALSE
  /\ cycleReason = "none"
  /\ missedWrite = FALSE
  /\ recovered = FALSE
  /\ startupDone = FALSE

(***************************************************************************)
(* The delivery records (agent_chat_processed): the messages, recipients   *)
(* and listeners of the model, and the table before any listener has run.  *)
(***************************************************************************)

\* Listener processes that run operations at the same time.
MaxListeners == 2
\* Operations issued in one behaviour; each takes one tick of the clock.
MaxTicks == 4

\* The message listeners are told of and its two recipients: two records.
\* An operation reads and writes the record of its own pair only.
ChatIds == {1}
Recipients == {"coder", "scout"}
Listeners == 1..MaxListeners

\* The composite key (chat_id, agent).
DeliveryKeys == ChatIds \X Recipients

\* No listener has run: the table is empty.
DeliveryIdle ==
  /\ agent_chat_processed = {}
  /\ now = 0
  /\ listenerOp = [l \in Listeners |-> None]
  /\ outcome = [l \in Listeners |-> None]
  /\ observed = [k \in DeliveryKeys |-> <<>>]

(***************************************************************************)
(* The message log (agent_chat) and the agents that poll it                *)
(***************************************************************************)

\* Messages inserted in one behaviour.
MaxMessages == 2
\* Ticks of the clock of the log in one behaviour.
MaxChatTime == 1

\* The names agents are mentioned by; names differ by case.
Mentionable == {"coder", "scout", "Coder"}

\* The log is empty and nobody has polled.
ChatIdle ==
  /\ agent_chat = {}
  /\ chatNow = 0

PollIdle ==
  /\ last_processed_id = [a \in Recipients |-> 0]
  /\ pollArgs = None
  /\ polled = <<>>
  /\ delivered = [a \in Recipients |-> <<>>]

(***************************************************************************)
(* The jobs (agent_jobs)                                                   *)
(***************************************************************************)

\* Jobs created in one behaviour.
MaxJobs == 2
\* Status updates and completions run in one behaviour.
MaxJobOps == 3

JobIds == 1..MaxJobs

\* No job has been created.
JobIdle ==
  /\ agent_jobs = {}
  /\ jobOps = 0
  /\ jobOutcome = None
  /\ notified = <<>>

(***************************************************************************)
(* The agent-config-db hook (handler.ts): JavaScript values, events and    *)
(* the rows of the agents table its query reads.                           *)
(***************************************************************************)

\* JavaScript values: undefined, null and strings (sequences of characters).
JsUndefined == [t |-> "undefined", s |-> <<>>]
JsNull == [t |-> "null", s |-> <<>>]
JsString(s) == [t |-> "string", s |-> s]

\* Characters String.prototype.trim removes.
Whitespace == {" ", "\t"}

\* The context of an event: blocked and blockReason are not set (FALSE, "")
\* until the hook sets them.
Context(agentId, model, fallbackModel, thinking) ==
  [agentId |-> agentId, model |-> model, fallbackModel |-> fallbackModel,
   thinking |-> thinking, blocked |-> FALSE, blockReason |-> ""]

\* No event yet.
NoEvent ==
  [type |-> "", action |-> "",
   context |-> Context(JsUndefined, JsUndefined, JsUndefined, JsUndefined)]

\* The hook's module is not loaded.
HookIdle ==
  /\ hookPc = "unloaded"
  /\ pool = FALSE
  /\ agents = {}
  /\ event = NoEvent
  /\ received = NoEvent
  /\ agentName = <<>>
  /\ lookups = 0
  /\ caught = FALSE

(***************************************************************************)
(* Concurrent calls of syncAgentsConfig on one output path                 *)
(***************************************************************************)

\* Calls that run at the same time.
MaxPublishers == 2

Publishers == 1..MaxPublishers

\* No call has started; `before` is what is known of the file.
PubState(before) ==
  /\ pubPc = [p \in Publishers |-> "idle"]
  /\ pubRows = [p \in Publishers |-> <<>>]
  /\ pubConfigRows = [p \in Publishers |-> <<>>]
  /\ pubTmpFile = [p \in Publishers |-> 0]
  /\ pubOffset = [p \in Publishers |-> 0]
  /\ pubResult = [p \in Publishers |-> "none"]
  /\ existing = before

PubIdle == PubState(None)

LaterIdle == JobIdle /\ HookIdle /\ PubIdle

ElseIdle == DeliveryIdle /\ ChatIdle /\ PollIdle /\ LaterIdle


\* No direct call of the builder has been made.
BuilderIdle ==
  /\ argRows = <<>>
  /\ argConfig = <<>>
  /\ builtDefaults = None
  /\ builtData = None
  /\ texts = <<>>
  /\ buildThrew = FALSE

Init == SyncInit /\ BuilderIdle /\ ElseIdle

StoreWrite ==
  /\ WriteAgentsTable \/ WriteConfigTable
  /\ UNCHANGED <<fileVars, callVars, faults, outerVars>>

Next ==
  \/ StoreWrite
  \/ Call
  \/ FetchAgentRows
  \/ FetchSystemConfig
  \/ CompareExisting
  \/ Mkdir
  \/ WriteFile
  \/ Rename
  \/ Crash
  \/ Return

Spec == Init /\ [][Next]_vars

(***************************************************************************)
(* The Reconciler (spec.md 4.5, 5, 7).  Its source, index.ts of the        *)
(* plugin, is not among the sources: this part follows the specification.  *)
(* A rebuild cycle is one run of syncAgentsConfig above, followed by the   *)
(* reload signal.                                                          *)
(***************************************************************************)

\* A cycle starts: syncAgentsConfig is entered.
StartCycle(reason) ==
  /\ EnterSync
  /\ cycleReason' = reason
  /\ pendingRebuild' = FALSE

\* A rebuild is asked for the way RequestRebuild asks, without looking at
\* the cycle in flight.
RequestRebuild_NoGuard(reason) ==
  /\ StartCycle(reason)
  /\ inFlight' = inFlight + 1

\* A request that finds a cycle in flight is dropped instead of coalesced.
RequestRebuild_Drop(reason) ==
  IF pc = "idle"
  THEN /\ StartCycle(reason)
       /\ inFlight' = inFlight + 1
  ELSE UNCHANGED <<callVars, inFlight, cycleReason, pendingRebuild>>

\* A rebuild is asked for (startup, an event, a reconnect).  Only one cycle
\* runs at a time: with one in flight the request is coalesced.
RequestRebuild(reason) ==
  IF pc = "idle"
  THEN /\ StartCycle(reason)
       /\ inFlight' = inFlight + 1
  ELSE /\ pendingRebuild' = TRUE
       /\ UNCHANGED <<callVars, inFlight, cycleReason>>

\* Startup: one rebuild, whatever the subscription does.
Startup ==
  /\ ~started
  /\ started' = TRUE
  /\ RequestRebuild("startup")
  /\ UNCHANGED <<storeVars, fileVars, faults, directVars, rstate, connAlive,
                 inbox, reconnectDelay, reloadSent, missedWrite, recovered,
                 startupDone>>

\* Connect where a success leaves the delay as the failures made it.
Connect_NoReset ==
  /\ started
  /\ rstate = "Disconnected"
  /\ \/ /\ rstate' = "Listening"
        /\ connAlive' = TRUE
        /\ missedWrite' = FALSE
        /\ recovered' = (recovered \/ missedWrite)
        /\ RequestRebuild("reconnect")
        /\ UNCHANGED <<faults, reconnectDelay>>
     \/ /\ reconnectDelay' = Min2(2 * reconnectDelay, MaxDelay)
        /\ UNCHANGED <<callVars, faults, rstate, connAlive, pendingRebuild,
                       inFlight, cycleReason, missedWrite, recovered>>
  /\ UNCHANGED <<storeVars, fileVars, directVars, started, inbox, reloadSent,
                 startupDone>>

\* Connect in Shutdown as in Disconnected: the reconnection timer is not
\* cancelled by the termination request.
Connect_AfterShutdown ==
  /\ started
  /\ rstate \in {"Disconnected", "Shutdown"}
  /\ \/ /\ rstate' = "Listening"
        /\ connAlive' = TRUE
        /\ reconnectDelay' = InitialDelay
        /\ missedWrite' = FALSE
        /\ recovered' = (recovered \/ missedWrite)
        /\ RequestRebuild("reconnect")
        /\ UNCHANGED faults
     \/ /\ reconnectDelay' = Min2(2 * reconnectDelay, MaxDelay)
        /\ UNCHANGED <<callVars, faults, rstate, connAlive, pendingRebuild,
                       inFlight, cycleReason, missedWrite, recovered>>
  /\ UNCHANGED <<storeVars, fileVars, directVars, started, inbox, reloadSent,
                 startupDone>>

\* A connection attempt from Disconnected.  Success: Listening, the delay
\* back at its initial value, and one unconditional rebuild.  Failure: the
\* delay doubles up to its cap and the attempt is scheduled again.
Connect ==
  /\ started
  /\ rstate = "Disconnected"
  /\ \/ /\ rstate' = "Listening"
        /\ connAlive' = TRUE
        /\ reconnectDelay' = InitialDelay
        /\ missedWrite' = FALSE
        /\ recovered' = (recovered \/ missedWrite)
        /\ RequestRebuild("reconnect")
        /\ UNCHANGED faults
     \/ /\ reconnectDelay' = Min2(2 * reconnectDelay, MaxDelay)
        /\ UNCHANGED <<callVars, faults, rstate, connAlive, pendingRebuild,
                       inFlight, cycleReason, missedWrite, recovered>>
  /\ UNCHANGED <<storeVars, fileVars, directVars, started, inbox, reloadSent,
                 startupDone>>

\* The connection dies; notifications on their way are lost with it.
TransportDies ==
  /\ rstate = "Listening"
  /\ connAlive
  /\ CanFail
  /\ faults' = faults + 1
  /\ connAlive' = FALSE
  /\ inbox' = 0
  /\ missedWrite' = (missedWrite \/ inbox > 0)
  /\ UNCHANGED <<storeVars, fileVars, callVars, directVars, started, rstate,
                 pendingRebuild, reconnectDelay, inFlight, reloadSent,
                 cycleReason, recovered, startupDone>>

\* The loss is noticed, by a disconnect event or by the keep-alive probe.
DetectLoss ==
  /\ rstate = "Listening"
  /\ ~connAlive
  /\ rstate' = "Disconnected"
  /\ UNCHANGED <<storeVars, fileVars, callVars, faults, directVars, started,
                 connAlive, inbox, pendingRebuild, reconnectDelay, inFlight,
                 reloadSent, cycleReason, missedWrite, recovered, startupDone>>

\* A change notification is handled.
OnNotification ==
  /\ rstate = "Listening"
  /\ inbox > 0
  /\ inbox' = inbox - 1
  /\ RequestRebuild("event")
  /\ UNCHANGED <<storeVars, fileVars, faults, directVars, started, rstate,
                 connAlive, reconnectDelay, reloadSent, missedWrite, recovered,
                 startupDone>>

\* The cycle ends: the reload signal if syncAgentsConfig returned true, and
\* the coalesced rebuild if one is pending and the Reconciler is not shut
\* down.
FinishRebuild ==
  /\ pc = "done"
  /\ reloadSent' = (result = "true")
  /\ startupDone' = (startupDone \/ cycleReason = "startup")
  /\ IF pendingRebuild /\ rstate # "Shutdown"
     THEN /\ StartCycle("coalesced")
          /\ UNCHANGED inFlight
     ELSE /\ pc' = "idle"
          /\ inFlight' = inFlight - 1
          /\ UNCHANGED <<rows, systemConfigRows, tmpFile, result, failedStep,
                         configFailed, preTarget, preTmpFiles, cycleReason,
                         pendingRebuild>>
  /\ UNCHANGED <<storeVars, fileVars, faults, directVars, started, rstate,
                 connAlive, inbox, reconnectDelay, missedWrite, recovered>>

\* The termination request: no more events, no reconnection, no new cycle;
\* a cycle in flight runs to its end.
Shutdown ==
  /\ started
  /\ rstate # "Shutdown"
  /\ rstate' = "Shutdown"
  /\ connAlive' = FALSE
  /\ inbox' = 0
  /\ pendingRebuild' = FALSE
  /\ UNCHANGED <<storeVars, fileVars, callVars, faults, directVars, started,
                 reconnectDelay, inFlight, reloadSent, cycleReason, missedWrite,
                 recovered, startupDone>>

\* A write to a watched table: the trigger notifies the subscribers that
\* are connected; nothing is kept for the others.
NotifiedWrite ==
  /\ WriteAgentsTable \/ WriteConfigTable
  /\ IF connAlive
     THEN inbox' = inbox + 1 /\ UNCHANGED missedWrite
     ELSE missedWrite' = TRUE /\ UNCHANGED inbox
  /\ UNCHANGED <<fileVars, callVars, faults, directVars, started, rstate,
                 connAlive, pendingRebuild, reconnectDelay, inFlight, reloadSent,
                 cycleReason, recovered, startupDone>>

ReconcilerNext ==
  \/ NotifiedWrite
  \/ Startup
  \/ Connect
  \/ TransportDies
  \/ DetectLoss
  \/ OnNotification
  \/ Shutdown
  \/ FetchAgentRows
  \/ FetchSystemConfig
  \/ CompareExisting
  \/ Mkdir
  \/ WriteFile
  \/ Rename
  \/ FinishRebuild

ReconcilerSpec == Init /\ [][ReconcilerNext]_vars


(***************************************************************************)
(* Direct calls of the exported builder functions: buildSystemDefaults,    *)
(* buildAgentsJson, then JSON.stringify, as syncAgentsConfig chains them   *)
(* (part_004:286-288), on rows the caller passes.                          *)
(***************************************************************************)

\* Agent rows passed per call, serializations per behaviour, system config
\* rows passed per call, characters of a value.
MaxRows == 2
MaxBuilds == 2
MaxConfigRows == 2
MaxValueLen == 2

\* Agent rows: fallbacks and allowed subagents out of order and sharing a
\* model with the other rows; no fallbacks (null); an empty fallbacks array.
FallbackRow ==
  AgentRowOf("scout", "m2", Some(<<"m3", "m1">>), "high", "subagent",
             Some(<<"scout", "coder">>))
BareRow == AgentRowOf("coder", "m1", None, NULL, "primary", None)
EmptyFallbackRow == AgentRowOf("peer", "m3", Some(<<>>), NULL, "primary", None)

BuilderRows == {FallbackRow, BareRow, EmptyFallbackRow}

\* The lists of at most MaxRows rows with distinct names, in every order.
RowLists ==
  {q \in UNION {[1..n -> BuilderRows] : n \in 0..MaxRows} :
     \A i, j \in 1..Len(q) : i # j => q[i].name # q[j].name}

\* The texts of a value column: up to MaxValueLen of these characters.
ValueChars == {"0", "3", "9", "-", "x", "."}
ValueTexts == UNION {[1..n -> ValueChars] : n \in 0..MaxValueLen}

\* System config rows by key: every text as an integer max_spawn_depth and
\* one of another type; max_concurrent_subagents; a key that is unknown.
ConfigRowsOfKey(key) ==
  IF key = "max_spawn_depth"
  THEN {DepthRow(t) : t \in ValueTexts}
       \cup {SystemConfigRowOf(key, <<"3">>, "text")}
  ELSE IF key = "max_concurrent_subagents"
  THEN {SystemConfigRowOf(key, <<"9">>, "integer"),
        SystemConfigRowOf(key, <<"-", "3">>, "integer"),
        SystemConfigRowOf(key, <<"x">>, "integer")}
  ELSE {SystemConfigRowOf(key, <<"3">>, "integer")}

ConfigKeys == {"max_spawn_depth", "max_concurrent_subagents", "log_level"}

\* The lists of rows with the keys ks, in that order.
RECURSIVE ConfigListsOfKeys(_)
ConfigListsOfKeys(ks) ==
  IF ks = <<>> THEN {<<>>}
  ELSE {<<r>> \o rest : r \in ConfigRowsOfKey(Head(ks)),
                        rest \in ConfigListsOfKeys(Tail(ks))}

\* The key is the primary key of agent_system_config (README.md:38): the
\* lists of at most MaxConfigRows rows with distinct keys, in every order.
ConfigLists ==
  UNION {ConfigListsOfKeys(ks) :
           ks \in {q \in UNION {[1..n -> ConfigKeys] : n \in 0..MaxConfigRows} :
                     \A i, j \in 1..Len(q) : i # j => q[i] # q[j]}}

\* What a call is made with: every list of agent rows with a fixed list of
\* system config rows, and every list of system config rows with a fixed
\* list of agent rows.
BuilderInputs ==
  (RowLists \X {<<>>, <<DepthRow(<<"9">>)>>})
  \cup ({<<>>, <<FallbackRow, BareRow>>} \X ConfigLists)

BuildInit ==
  /\ SyncInit
  /\ target = None
  /\ ~dirExists
  /\ \E input \in BuilderInputs :
       argRows = input[1] /\ argConfig = input[2]
  /\ builtDefaults = None
  /\ builtData = None
  /\ texts = <<>>
  /\ buildThrew = FALSE
  /\ ElseIdle

\* buildSystemDefaults(systemConfigRows) (part_004:286).  The body of its
\* loop is inside try/catch and no statement outside it can throw.
BuildSystemDefaults ==
  /\ ~buildThrew
  /\ builtDefaults = None
  /\ Len(texts) < MaxBuilds
  /\ builtDefaults' = Some(buildSystemDefaults(argConfig))
  /\ UNCHANGED <<storeVars, fileVars, callVars, faults, callerVars, reconVars,
                 elseVars,
                 argRows, argConfig, builtData, texts, buildThrew>>

\* buildAgentsJson with `list` declared outside the function: every call
\* pushes its entries after those of the calls before.
BuildAgentsJson_SharedList ==
  /\ builtDefaults # None
  /\ builtData = None
  /\ LET n == Len(argRows)
         kept == [i \in 1..(n * (Len(texts) + 1)) |-> argRows[((i - 1) % n) + 1]]
     IN builtData' = Some(buildAgentsJson(kept, builtDefaults))
  /\ UNCHANGED <<storeVars, fileVars, callVars, faults, callerVars, reconVars,
                 elseVars,
                 argRows, argConfig, builtDefaults, texts, buildThrew>>

\* buildAgentsJson(rows, systemDefaults) (part_004:287).  allModels and
\* list are locals, made anew by every call.
BuildAgentsJson ==
  /\ builtDefaults # None
  /\ builtData = None
  /\ builtData' = Some(buildAgentsJson(argRows, builtDefaults))
  /\ UNCHANGED <<storeVars, fileVars, callVars, faults, callerVars, reconVars,
                 elseVars,
                 argRows, argConfig, builtDefaults, texts, buildThrew>>

\* JSON.stringify(data, null, 2) + "\n" (part_004:288); the caller keeps
\* the text and is ready for the next build.
Serialize ==
  /\ builtData # None
  /\ texts' = Append(texts, Stringify(builtData[1]))
  /\ builtDefaults' = None
  /\ builtData' = None
  /\ UNCHANGED <<storeVars, fileVars, callVars, faults, callerVars, reconVars,
                 elseVars,
                 argRows, argConfig, buildThrew>>

BuildNext ==
  \/ BuildSystemDefaults
  \/ BuildAgentsJson
  \/ Serialize

BuildSpec == BuildInit /\ [][BuildNext]_vars

(***************************************************************************)
(* Properties of the publisher and of syncAgentsConfig                     *)
(***************************************************************************)

\* A whole document: the opening brace, the closing brace at depth 0 as the
\* last line, and only deeper lines between them.  No proper prefix of a
\* document is one.
IsCompleteDocument(text) ==
  /\ Len(text) >= 2
  /\ text[1] = Line(0, <<"{">>)
  /\ text[Len(text)] = Line(0, <<"}">>)
  /\ \A i \in 2..(Len(text) - 1) : text[i].ind > 0

\* C1: atomic publish.  In every reachable state, a crash in the middle of
\* a call included, the file at the target path is what it was when the
\* call started or the whole new text, and whenever it exists it is a
\* complete document: never a prefix of one.
C1_AtomicPublish ==
  /\ target \in {preTarget, Some(NewContent)}
  /\ target = None \/ IsCompleteDocument(target[1])

\* A crash after the temporary file was partly written and before the
\* rename, with a document already at the target path.
C1_Witness ==
  /\ pc = "crashed"
  /\ preTarget # None
  /\ TmpExists(tmpFile)
  /\ ~IsCompleteDocument(TmpContent(tmpFile))

\* C2: a call in which mkdir, writeFile or rename failed has thrown, and
\* the file at the target path is what it was when the call started.
C2_FailedPublishLeavesTarget ==
  (pc = "done" /\ failedStep \in {"mkdir", "writeFile", "rename"})
    => (result = "threw" /\ target = preTarget)

\* A failed rename over an existing document whose text differs from the
\* new one.
C2_Witness ==
  /\ pc = "done"
  /\ failedStep = "rename"
  /\ preTarget # None
  /\ preTarget # Some(NewContent)

\* C3: after a call in which writeFile or rename failed, the temporary file
\* of that call is gone.
C3_TempFileCleanedUp ==
  (pc = "done" /\ failedStep \in {"writeFile", "rename"})
    => ~TmpExists(tmpFile)

C10_QueryFailureKeepsDocument ==
  (pc = "done" /\ (failedStep = "agentsQuery" \/ configFailed))
    => target = preTarget

\* C10 amended: a failed agents query makes the call throw and leaves the
\* file as it was; a failed system config query is taken as an empty table,
\* so a call that then returns has left the complete document built from
\* its agent rows with no system defaults; in both cases the file is not
\* removed and is a complete document.
C10_QueryFailureOutcome ==
  pc = "done" =>
    /\ failedStep = "agentsQuery" =>
         /\ result = "threw"
         /\ target = preTarget
    /\ (configFailed /\ result # "threw") =>
         target = Some(Stringify(buildAgentsJson(rows, Some(NoDefaults))))
    /\ (configFailed \/ failedStep = "agentsQuery") =>
         /\ target = None => preTarget = None
         /\ target = None \/ IsCompleteDocument(target[1])

\* A failed system config query in a call that went on to replace a
\* document.
C10_Witness ==
  /\ pc = "done"
  /\ configFailed
  /\ result = "true"
  /\ preTarget # None

(***************************************************************************)
(* Properties of the Reconciler                                            *)
(***************************************************************************)

\* What the two queries of the last cycle answered is what went into the
\* file: the cycle returned and its system config query did not fail.
CycleOK == result \in {"true", "false"} /\ ~configFailed

\* No request for a rebuild is waiting: no notification to handle, no write
\* that raised none, no coalesced rebuild.
NothingOutstanding == inbox = 0 /\ ~missedWrite /\ ~pendingRebuild

\* The Reconciler is running and at rest after a cycle that went through.
Settled ==
  /\ started
  /\ rstate # "Shutdown"
  /\ pc = "idle"
  /\ NothingOutstanding
  /\ CycleOK

\* The published document is the build of the tables as they are.
Fresh == target = Some(ContentOf(agentsTable, configTable))

\* C4: reconnect catch-up.  A successful reconnect starts a rebuild cycle,
\* or, with a cycle in flight, leaves one pending; and once a reconnect has
\* followed a write that raised no notification, the Reconciler at rest
\* after a cycle that went through has published the build of the tables
\* as they are, the write included.
C4_ReconnectCatchUp ==
  /\ [][(rstate = "Disconnected" /\ rstate' = "Listening")
          => IF pc = "idle"
             THEN pc' = "fetchAgents" /\ cycleReason' = "reconnect"
             ELSE pendingRebuild']_vars
  /\ []((recovered /\ Settled) => Fresh)

\* A write was made while the connection was down, the reconnect started a
\* cycle, and that cycle has published a changed document.
C4_Witness ==
  /\ recovered
  /\ Settled
  /\ writes = 1
  /\ cycleReason = "reconnect"
  /\ reloadSent
  /\ Fresh

\* C5: at most one rebuild cycle is in flight.
C5_OneRebuildAtATime == inFlight <= 1

\* A request arrived while a cycle was running and was coalesced.
C5_Witness ==
  /\ inFlight = 1
  /\ pendingRebuild
  /\ pc \in {"fetchConfig", "readFile", "mkdir", "writeFile", "rename"}

\* C6: coalesced events are not dropped.  A notification handled while a
\* cycle is in flight leaves that cycle alone and a rebuild pending; the
\* pending rebuild is given up only by starting it or by shutdown; a cycle
\* that ends with a rebuild pending and no shutdown starts the next one;
\* and the Reconciler at rest after a coalesced cycle that went through has
\* published the build of the tables as they are.
C6_CoalescedNotDropped ==
  /\ [][(OnNotification /\ pc # "idle") => (pendingRebuild' /\ pc' = pc)]_vars
  /\ [][(pendingRebuild /\ ~pendingRebuild')
          => (pc' = "fetchAgents" \/ rstate' = "Shutdown")]_vars
  /\ [][(pc = "done" /\ pc' # "done" /\ pendingRebuild /\ rstate # "Shutdown")
          => (pc' = "fetchAgents" /\ cycleReason' = "coalesced")]_vars
  /\ []((cycleReason = "coalesced" /\ Settled) => Fresh)

\* The only connection ever made started the running cycle, so the rebuild
\* now pending was asked for by the notification of the write.
C6_Witness ==
  /\ pendingRebuild
  /\ pc # "idle"
  /\ cycleReason = "reconnect"
  /\ faults = 0
  /\ writes = 1
  /\ inbox = 0

\* C7: the startup sync.  Starting the Reconciler starts a rebuild cycle,
\* with no notification and no connection needed; that cycle runs to its
\* end; and if it went through and no table was written since, the
\* published document is the build of the tables.
C7_StartupSync ==
  /\ [][(~started /\ started')
          => (pc' = "fetchAgents" /\ cycleReason' = "startup")]_vars
  /\ []((cycleReason = "startup" /\ pc = "idle" /\ CycleOK /\ writes = 0)
          => Fresh)
  /\ <>startupDone

\* The startup cycle has replaced a document, with no connection made and
\* no notification received.
C7_Witness ==
  /\ startupDone
  /\ cycleReason = "startup"
  /\ pc = "idle"
  /\ CycleOK
  /\ writes = 0
  /\ rstate = "Disconnected"
  /\ preTarget # None
  /\ reloadSent

CycleStep ==
  \/ Startup
  \/ FetchAgentRows
  \/ FetchSystemConfig
  \/ CompareExisting
  \/ Mkdir
  \/ WriteFile
  \/ Rename
  \/ FinishRebuild

ReconcilerFairSpec == ReconcilerSpec /\ WF_vars(CycleStep)

(***************************************************************************)
(* Properties of the builder                                               *)
(***************************************************************************)

Ids(data) == [i \in 1..Len(data.agents.list) |-> data.agents.list[i].id]

\* Strictly ascending in the order of the strings.
Ascending(strs) == \A i \in 1..(Len(strs) - 1) : StrLess(strs[i], strs[i + 1])

\* C12 as stated: whatever the order of the rows passed, the ids of the list
\* are ascending.
C12_ListSortedById ==
  builtData # None => Ascending(Ids(builtData[1]))

\* C12 amended: the list has one entry per row passed, in the order of the
\* rows; the rows AGENTS_QUERY answers are ordered by name, so the list
\* built from them is ascending.
C12_ListFollowsRows ==
  /\ builtData # None =>
       Ids(builtData[1]) = [i \in 1..Len(argRows) |-> argRows[i].name]
  /\ Ascending(Ids(buildAgentsJson(AGENTS_QUERY(Range(argRows)), None)))

\* A document was built from two rows passed in descending order of name.
C12_Witness ==
  /\ builtData # None
  /\ Len(argRows) = 2
  /\ StrLess(argRows[2].name, argRows[1].name)
  /\ Len(AGENTS_QUERY(Range(argRows))) = 2

\* The keys of defaults.models as the text has them: the lines one level
\* inside it, each a key with an empty object.
ModelKeysIn(text) ==
  LET keyLines == SelectSeq(text, LAMBDA l : l.ind = 4 /\ Len(l.toks) >= 3
                                             /\ l.toks[1] = "key"
                                             /\ l.toks[3] = "{}")
  IN [i \in 1..Len(keyLines) |-> keyLines[i].toks[2]]

\* The models the rows name: the model of each row, and each element of
\* fallback_models where it is an array.
ModelsNamed(rowList) ==
  {rowList[i].model : i \in 1..Len(rowList)}
  \cup UNION {Range(rowList[i].fallback_models[1]) :
                i \in {k \in 1..Len(rowList) : rowList[k].fallback_models # None}}

\* C13: the keys of the model allow-list are the models the rows name as
\* primary or fallback, no other, each once, in ascending order, in the
\* document and in its text.
C13_ModelsAreTheUnion ==
  builtData # None =>
    LET models == builtData[1].agents.defaults.models
    IN /\ Range(models) = ModelsNamed(argRows)
       /\ Ascending(models)
       /\ ModelKeysIn(Stringify(builtData[1])) = models

\* A document was built from a row with two fallbacks out of order and a
\* row whose model is one of them.
C13_Witness ==
  /\ builtData # None
  /\ Range(argRows) = {FallbackRow, BareRow}
  /\ builtData[1].agents.defaults.models = <<"m1", "m2", "m3">>

\* The first lines of the model fields of the text, in order: the lines
\* with the key "model".
ModelFieldsIn(text) ==
  SelectSeq(text, LAMBDA l : Len(l.toks) >= 3 /\ l.toks[1] = "key"
                             /\ l.toks[2] = "model")

\* fallback_models is null or an empty array.
NoFallbacks(row) ==
  \/ row.fallback_models = None
  \/ row.fallback_models = Some(<<>>)

\* C14: the model field of the entry of a row with no fallbacks is the
\* bare model identity; that of a row with fallbacks is the pair of the
\* model and the fallbacks in the row's order; the text opens the field
\* as a string in the first case and as an object in the second.
C14_ModelFieldShape ==
  builtData # None =>
    LET list == builtData[1].agents.list
        fields == ModelFieldsIn(Stringify(builtData[1]))
    IN /\ Len(list) = Len(argRows)
       /\ Len(fields) = Len(argRows)
       /\ \A i \in 1..Len(argRows) :
            /\ list[i].model.primary = argRows[i].model
            /\ list[i].model.bare <=> NoFallbacks(argRows[i])
            /\ ~list[i].model.bare =>
                 list[i].model.fallbacks = argRows[i].fallback_models[1]
            /\ IF NoFallbacks(argRows[i])
               THEN /\ fields[i].toks[3] = "string"
                    /\ fields[i].toks[4] = argRows[i].model
               ELSE fields[i].toks[3] = "{"

\* A document was built from a row whose fallbacks are an empty array and
\* a row with two fallbacks that are not in ascending order.
C14_Witness ==
  /\ builtData # None
  /\ \E i, j \in 1..Len(argRows) :
       /\ argRows[i].fallback_models = Some(<<>>)
       /\ argRows[j].fallback_models # None
       /\ Len(argRows[j].fallback_models[1]) = 2
       /\ ~Ascending(argRows[j].fallback_models[1])
       /\ builtData[1].agents.list[i].model.bare
       /\ ~builtData[1].agents.list[j].model.bare

(***************************************************************************)
(* Properties of buildSystemDefaults                                       *)
(***************************************************************************)

\* A plain integer literal: an optional minus sign, then digits and
\* nothing else.
IntegerLiteral(text) ==
  LET digits == IF text # <<>> /\ text[1] = "-" THEN Tail(text) ELSE text
  IN /\ digits # <<>>
     /\ \A i \in 1..Len(digits) : digits[i] \in Range(DigitChars)

\* The number a sequence of digits denotes, from its last digit.
RECURSIVE Magnitude(_)
Magnitude(digits) ==
  IF digits = <<>> THEN 0
  ELSE 10 * Magnitude(SubSeq(digits, 1, Len(digits) - 1))
       + DigitVal(digits[Len(digits)])

\* The integer an integer literal denotes.
LiteralValue(text) ==
  IF text[1] = "-" THEN 0 - Magnitude(Tail(text)) ELSE Magnitude(text)

\* min(5, max(1, v))
InRange1to5(v) == IF v < 1 THEN 1 ELSE IF v > 5 THEN 5 ELSE v

\* The rows of the list with the key, of type integer, whose value is an
\* integer literal.
IntegerRows(config, key) ==
  {i \in 1..Len(config) : /\ config[i].key = key
                          /\ config[i].value_type = "integer"
                          /\ IntegerLiteral(config[i].value)}

\* C15: a max_spawn_depth row of type integer whose value is the integer
\* v gives maxSpawnDepth = min(5, max(1, v)) and nothing is thrown; every
\* maxSpawnDepth of the defaults and of a built document is in 1..5.
C15_DepthClamped ==
  /\ ~buildThrew
  /\ builtDefaults # None =>
       /\ \A i \in IntegerRows(argConfig, "max_spawn_depth") :
            builtDefaults[1].maxSpawnDepth
              = Some(InRange1to5(LiteralValue(argConfig[i].value)))
       /\ builtDefaults[1].maxSpawnDepth # Undefined =>
            builtDefaults[1].maxSpawnDepth[1] \in 1..5
  /\ (builtData # None /\ builtData[1].agents.defaults.subagents # Undefined) =>
       LET block == builtData[1].agents.defaults.subagents[1]
       IN block.maxSpawnDepth # Undefined => block.maxSpawnDepth[1] \in 1..5

\* A document was built with the depth 5 from a row whose value is above 5.
C15_Witness ==
  /\ builtData # None
  /\ \E i \in IntegerRows(argConfig, "max_spawn_depth") :
       LiteralValue(argConfig[i].value) > 5
  /\ builtData[1].agents.defaults.subagents # Undefined
  /\ builtData[1].agents.defaults.subagents[1].maxSpawnDepth = Some(5)

\* The field of the defaults that the key is mapped to.
FieldOf(defaults, key) ==
  IF key = "max_spawn_depth" THEN defaults.maxSpawnDepth
  ELSE defaults.maxConcurrent

\* The rows with one of the two integer keys that are not of type integer
\* or whose value is not an integer literal.
InvalidRows(config) ==
  {i \in 1..Len(config) :
     /\ config[i].key \in {"max_spawn_depth", "max_concurrent_subagents"}
     /\ \/ config[i].value_type # "integer"
        \/ ~IntegerLiteral(config[i].value)}

\* C16: a row for an integer key whose value is not an integer literal,
\* or whose type is not integer, contributes no field to the defaults.
C16_InvalidRowSkipped ==
  builtDefaults # None =>
    \A i \in InvalidRows(argConfig) :
      FieldOf(builtDefaults[1], argConfig[i].key) = Undefined

\* The list without its invalid rows and its rows of unrecognized keys.
ValidOnly(config) ==
  SelectSeq(config, LAMBDA r : /\ r.key \in {"max_spawn_depth",
                                             "max_concurrent_subagents"}
                               /\ r.value_type = "integer"
                               /\ IntegerLiteral(r.value))

\* C17: buildSystemDefaults returns for every list of rows, and the field
\* of each valid row is what it is when the list holds the valid rows
\* alone.
C17_BadRowDoesNotBlock ==
  /\ ~buildThrew
  /\ builtDefaults # None =>
       \A key \in {"max_spawn_depth", "max_concurrent_subagents"} :
         IntegerRows(argConfig, key) # {} =>
           /\ FieldOf(builtDefaults[1], key) # Undefined
           /\ FieldOf(builtDefaults[1], key)
                = FieldOf(buildSystemDefaults(ValidOnly(argConfig)), key)

\* The defaults were built from a list whose first row is invalid and
\* whose second row is valid.
C17_Witness ==
  /\ builtDefaults # None
  /\ Len(argConfig) = 2
  /\ 1 \in InvalidRows(argConfig)
  /\ 2 \in IntegerRows(argConfig, argConfig[2].key)
  /\ argConfig[2].key \in {"max_spawn_depth", "max_concurrent_subagents"}
  /\ FieldOf(builtDefaults[1], argConfig[2].key) # Undefined

\* The subagents block of the defaults of a document; without the block
\* neither field is there.
BlockOf(data) ==
  IF data.agents.defaults.subagents = Undefined THEN NoDefaults
  ELSE data.agents.defaults.subagents[1]

NextDelay(delay) == IF 2 * delay > MaxDelay THEN MaxDelay ELSE 2 * delay

\* C19: the reconnection delay is the initial interval when the
\* connection is lost, doubles with each failed attempt, is never above
\* the maximum, and is the initial interval again after a successful
\* reconnection.
C19_Backoff ==
  [][/\ reconnectDelay' \in InitialDelay..MaxDelay
     /\ (rstate = "Listening" /\ rstate' = "Disconnected")
          => reconnectDelay' = InitialDelay
     /\ (rstate = "Disconnected" /\ rstate' = "Disconnected")
          => reconnectDelay' \in {reconnectDelay, NextDelay(reconnectDelay)}
     /\ (rstate = "Disconnected" /\ rstate' = "Listening")
          => reconnectDelay' = InitialDelay
     /\ reconnectDelay' > reconnectDelay
          => (rstate = "Disconnected" /\ rstate' = "Disconnected")]_vars

\* Enough attempts in a row have failed for the delay to be at its
\* maximum.
C19_Witness ==
  /\ rstate = "Disconnected"
  /\ reconnectDelay = MaxDelay

\* C20: Shutdown is entered by the termination request only, which drops
\* what is pending; from then on the state stays Shutdown, nothing
\* connects, no notification is handled and no cycle starts, while a cycle
\* in flight may go on to its end.
C20_ShutdownAbsorbing ==
  [][/\ (rstate # "Shutdown" /\ rstate' = "Shutdown")
          => (Shutdown /\ ~connAlive' /\ inbox' = 0 /\ ~pendingRebuild')
     /\ rstate = "Shutdown"
          => /\ rstate' = "Shutdown"
             /\ ~connAlive'
             /\ reconnectDelay' = reconnectDelay
             /\ inbox' = inbox
             /\ ~pendingRebuild'
             /\ inFlight' <= inFlight
             /\ pc' = "fetchAgents" => pc = "fetchAgents"]_vars

\* The Reconciler is shut down with reconnection attempts behind it and a
\* cycle in flight.
C20_Witness ==
  /\ rstate = "Shutdown"
  /\ reconnectDelay > InitialDelay
  /\ inFlight = 1
  /\ pc \notin {"idle", "done"}

(***************************************************************************)
(* The delivery tracker: markReceived, markRouted, markResponded and       *)
(* markFailed on the rows of agent_chat_processed.  A listener takes an    *)
(* operation in hand, reading the state of the record as it does, and      *)
(* then runs its statement; the statements of two listeners are atomic and *)
(* come in either order.                                                   *)
(***************************************************************************)

OpNames == {"markReceived", "markRouted", "markResponded", "markFailed"}

Terminal == {"responded", "failed"}

\* The rows of a table with the key; the primary key allows one.
RecordsIn(table, key) ==
  {r \in table : r.chat_id = key[1] /\ r.agent = key[2]}

RecordsOf(key) == RecordsIn(agent_chat_processed, key)

\* The state of the record with the key, "absent" if there is none.
StatusOf(key) ==
  IF RecordsOf(key) = {} THEN "absent"
  ELSE (CHOOSE r \in RecordsOf(key) : TRUE).status

\* The row of a message a listener has just been told of.
NewRecord(key) ==
  [chat_id |-> key[1], agent |-> key[2], status |-> "received",
   received_at |-> Some(now), routed_at |-> None, responded_at |-> None,
   error_message |-> None]

\* The rows of the other keys.
OtherRecords(key) == agent_chat_processed \ RecordsOf(key)

\* The listener is done with its operation: what it was, the state it had
\* read, and how it ended.
Finish(l, how) ==
  /\ listenerOp' = [listenerOp EXCEPT ![l] = None]
  /\ outcome' = [outcome EXCEPT
                   ![l] = Some([name |-> listenerOp[l][1].name,
                                key |-> listenerOp[l][1].key,
                                read |-> listenerOp[l][1].read,
                                how |-> how])]

\* The record with the key has taken one more state.
Observe(key, status) ==
  observed' = [observed EXCEPT ![key] = Append(@, status)]

\* A listener takes an operation in hand and reads the record's state.
Begin(l) ==
  /\ listenerOp[l] = None
  /\ now < MaxTicks
  /\ now' = now + 1
  /\ \E name \in OpNames, key \in DeliveryKeys :
       listenerOp' = [listenerOp EXCEPT
                        ![l] = Some([name |-> name, key |-> key,
                                     read |-> StatusOf(key)])]
  /\ outcome' = [outcome EXCEPT ![l] = None]
  /\ UNCHANGED <<agent_chat_processed, observed, syncAllVars, chatVars,
                 pollVars, laterVars>>

\* markReceived that writes the row whether or not there is one.
markReceived_Insert(l) ==
  /\ listenerOp[l] # None
  /\ listenerOp[l][1].name = "markReceived"
  /\ LET key == listenerOp[l][1].key
     IN /\ agent_chat_processed' = agent_chat_processed \cup {NewRecord(key)}
        /\ Observe(key, "received")
        /\ Finish(l, "created")
  /\ UNCHANGED <<now, syncAllVars, chatVars, pollVars, laterVars>>

\* markReceived(messageId, recipient): the row is inserted in state
\* received if the key is free; a row that is there is left as it is.
markReceived(l) ==
  /\ listenerOp[l] # None
  /\ listenerOp[l][1].name = "markReceived"
  /\ LET key == listenerOp[l][1].key
     IN IF RecordsOf(key) = {}
        THEN /\ agent_chat_processed' = agent_chat_processed \cup {NewRecord(key)}
             /\ Observe(key, "received")
             /\ Finish(l, "created")
        ELSE /\ Finish(l, "noop")
             /\ UNCHANGED <<agent_chat_processed, observed>>
  /\ UNCHANGED <<now, syncAllVars, chatVars, pollVars, laterVars>>

\* markRouted(messageId, recipient): received -> routed; it fails on a
\* record that is absent or in another state.
markRouted(l) ==
  /\ listenerOp[l] # None
  /\ listenerOp[l][1].name = "markRouted"
  /\ LET key == listenerOp[l][1].key
     IN IF StatusOf(key) = "received"
        THEN /\ agent_chat_processed' =
                  OtherRecords(key)
                    \cup {[r EXCEPT !.status = "routed",
                                      !.routed_at = Some(now)]
                            : r \in RecordsOf(key)}
             /\ Observe(key, "routed")
             /\ Finish(l, "ok")
        ELSE /\ Finish(l, "InvalidStateTransition")
             /\ UNCHANGED <<agent_chat_processed, observed>>
  /\ UNCHANGED <<now, syncAllVars, chatVars, pollVars, laterVars>>

\* markResponded(messageId, recipient): routed -> responded; the same
\* failure as markRouted.
markResponded(l) ==
  /\ listenerOp[l] # None
  /\ listenerOp[l][1].name = "markResponded"
  /\ LET key == listenerOp[l][1].key
     IN IF StatusOf(key) = "routed"
        THEN /\ agent_chat_processed' =
                  OtherRecords(key)
                    \cup {[r EXCEPT !.status = "responded",
                                      !.responded_at = Some(now)]
                            : r \in RecordsOf(key)}
             /\ Observe(key, "responded")
             /\ Finish(l, "ok")
        ELSE /\ Finish(l, "InvalidStateTransition")
             /\ UNCHANGED <<agent_chat_processed, observed>>
  /\ UNCHANGED <<now, syncAllVars, chatVars, pollVars, laterVars>>

\* markFailed that looks at the state of the record now only: whatever
\* the listener read, a record that is not terminal becomes failed.
markFailed_NoReread(l) ==
  /\ listenerOp[l] # None
  /\ listenerOp[l][1].name = "markFailed"
  /\ LET key == listenerOp[l][1].key
     IN IF StatusOf(key) \in {"received", "routed"}
        THEN /\ agent_chat_processed' =
                  OtherRecords(key)
                    \cup {[r EXCEPT !.status = "failed",
                                      !.error_message = Some("detail")]
                            : r \in RecordsOf(key)}
             /\ Observe(key, "failed")
             /\ Finish(l, "ok")
        ELSE /\ Finish(l, "InvalidStateTransition")
             /\ UNCHANGED <<agent_chat_processed, observed>>
  /\ UNCHANGED <<now, syncAllVars, chatVars, pollVars, laterVars>>

\* markFailed that overwrites a record in any state.
markFailed_AnyState(l) ==
  /\ listenerOp[l] # None
  /\ listenerOp[l][1].name = "markFailed"
  /\ LET key == listenerOp[l][1].key
     IN IF StatusOf(key) # "absent"
        THEN /\ agent_chat_processed' =
                  OtherRecords(key)
                    \cup {[r EXCEPT !.status = "failed",
                                      !.error_message = Some("detail")]
                            : r \in RecordsOf(key)}
             /\ Observe(key, "failed")
             /\ Finish(l, "ok")
        ELSE /\ Finish(l, "InvalidStateTransition")
             /\ UNCHANGED <<agent_chat_processed, observed>>
  /\ UNCHANGED <<now, syncAllVars, chatVars, pollVars, laterVars>>

\* markFailed(messageId, recipient, errorDetail): from the state the
\* listener read, if it is not terminal and the record is still in it, to
\* failed with the detail; a listener that lost the race to another
\* transition fails and has to read the record again.
markFailed(l) ==
  /\ listenerOp[l] # None
  /\ listenerOp[l][1].name = "markFailed"
  /\ LET key == listenerOp[l][1].key
         read == listenerOp[l][1].read
     IN IF read \in {"received", "routed"} /\ StatusOf(key) = read
        THEN /\ agent_chat_processed' =
                  OtherRecords(key)
                    \cup {[r EXCEPT !.status = "failed",
                                      !.error_message = Some("detail")]
                            : r \in RecordsOf(key)}
             /\ Observe(key, "failed")
             /\ Finish(l, "ok")
        ELSE /\ Finish(l, "InvalidStateTransition")
             /\ UNCHANGED <<agent_chat_processed, observed>>
  /\ UNCHANGED <<now, syncAllVars, chatVars, pollVars, laterVars>>

DeliveryNext ==
  \/ \E l \in Listeners : Begin(l)
  \/ \E l \in Listeners : markReceived(l)
  \/ \E l \in Listeners : markRouted(l)
  \/ \E l \in Listeners : markResponded(l)
  \/ \E l \in Listeners : markFailed(l)

\* The components start idle and no file has been published.
QuietInit == Init /\ target = None /\ ~dirExists

DeliverySpec == QuietInit /\ [][DeliveryNext]_vars

(***************************************************************************)
(* Properties of the delivery tracker                                      *)
(***************************************************************************)

\* a can be had from b by leaving elements out.
RECURSIVE IsSubsequence(_, _)
IsSubsequence(a, b) ==
  IF a = <<>> THEN TRUE
  ELSE IF b = <<>> THEN FALSE
  ELSE IF Head(a) = Head(b) THEN IsSubsequence(Tail(a), Tail(b))
  ELSE IsSubsequence(a, Tail(b))

IsPrefix(a, b) == Len(a) <= Len(b) /\ a = SubSeq(b, 1, Len(a))

Ran(l, opName) ==
  /\ listenerOp[l] # None
  /\ listenerOp[l][1].name = opName
  /\ listenerOp'[l] = None

\* C22: there is at most one record for a (message, recipient) pair;
\* markReceived creates the record in state received when there is none,
\* and leaves the whole table as it is when there is one, in any state,
\* also when another listener created it after this one took the
\* operation in hand.
C22_ReceivedOnce ==
  /\ [](\A key \in DeliveryKeys : Cardinality(RecordsOf(key)) <= 1)
  /\ [][\A l \in Listeners :
          Ran(l, "markReceived") =>
            LET key == listenerOp[l][1].key
            IN IF RecordsOf(key) = {}
               THEN /\ RecordsIn(agent_chat_processed', key) = {NewRecord(key)}
                    /\ agent_chat_processed' \ {NewRecord(key)}
                         = agent_chat_processed
                    /\ outcome'[l][1].how = "created"
               ELSE /\ agent_chat_processed' = agent_chat_processed
                    /\ outcome'[l][1].how = "noop"]_vars

\* Two listeners ran markReceived for the same pair, each having found no
\* record when it took the operation in hand; one created the record and
\* the other did nothing, at a later time.
C22_Witness ==
  \E l1, l2 \in Listeners :
    /\ outcome[l1] # None /\ outcome[l2] # None
    /\ outcome[l1][1].name = "markReceived"
    /\ outcome[l2][1].name = "markReceived"
    /\ outcome[l1][1].key = outcome[l2][1].key
    /\ outcome[l1][1].read = "absent" /\ outcome[l2][1].read = "absent"
    /\ outcome[l1][1].how = "created" /\ outcome[l2][1].how = "noop"
    /\ Cardinality(RecordsOf(outcome[l1][1].key)) = 1

\* Listeners l1 and l2 ran markRouted and markFailed on one record, both
\* having taken the operation in hand while the record was in received:
\* neither had run when the other read the record.
Raced(l1, l2) ==
  /\ outcome[l1] # None /\ outcome[l2] # None
  /\ outcome[l1][1].name = "markRouted"
  /\ outcome[l2][1].name = "markFailed"
  /\ outcome[l1][1].key = outcome[l2][1].key
  /\ outcome[l1][1].read = "received"
  /\ outcome[l2][1].read = "received"

MentionArrays ==
  {<<"coder">>, <<"scout">>, <<"Coder">>, <<"coder", "scout">>,
   <<"coder", "coder">>}

\* id SERIAL: the next value of the sequence.
NextId == Cardinality(agent_chat) + 1

\* INSERT INTO agent_chat (sender, message, mentions): id is the next
\* value of the sequence and created_at is now(), the time the inserting
\* transaction began, which is the time of the log or before it.
InsertMessage ==
  /\ Cardinality(agent_chat) < MaxMessages
  /\ \E mentions \in MentionArrays, began \in 0..chatNow :
       agent_chat' = agent_chat \cup
         {[id |-> NextId, sender |-> "peer", mentions |-> mentions,
           created_at |-> began]}
  /\ UNCHANGED <<chatNow, pollVars, deliveryVars, syncAllVars, laterVars>>

\* Time passes.
ChatTick ==
  /\ chatNow < MaxChatTime
  /\ chatNow' = chatNow + 1
  /\ UNCHANGED <<agent_chat, pollVars, deliveryVars, syncAllVars, laterVars>>

\* mentions @> ARRAY[name]: the array has an element equal to the name.
Mentions(row, name) == \E i \in 1..Len(row.mentions) : row.mentions[i] = name

\* WHERE mentions @> ARRAY[name] AND id > last_processed_id
Qualifying(name, sinceId) ==
  {row \in agent_chat : Mentions(row, name) /\ row.id > sinceId}

\* The orders ORDER BY created_at can return the rows in: every order in
\* which created_at does not decrease; rows of the same time come in any
\* order.
OrderedByCreatedAt(found) ==
  {q \in [1..Cardinality(found) -> found] :
     /\ \A i, j \in 1..Cardinality(found) : i # j => q[i] # q[j]
     /\ \A i, j \in 1..Cardinality(found) :
          i < j => q[i].created_at <= q[j].created_at}

\* The polling query (part_001:145-149): what it can return.
PollingQuery(name, sinceId) == OrderedByCreatedAt(Qualifying(name, sinceId))

IdsOf(found) == [i \in 1..Len(found) |-> found[i].id]

\* The largest id of the rows, or the cursor if there are none.
LargestId(found, cursor) ==
  IF found = <<>> THEN cursor
  ELSE CHOOSE n \in Range(IdsOf(found)) : \A k \in Range(IdsOf(found)) : k <= n

\* The query with any name and any cursor.
ListPending ==
  /\ \E name \in Mentionable, sinceId \in 0..MaxMessages :
       /\ pollArgs' = Some(<<name, sinceId>>)
       /\ polled' \in PollingQuery(name, sinceId)
  /\ UNCHANGED <<last_processed_id, delivered, chatVars, deliveryVars,
                 syncAllVars, laterVars>>

\* An agent's heartbeat: it asks for the rows past its cursor, takes them
\* and moves its cursor to the largest id it was given.
Heartbeat ==
  /\ \E name \in Recipients :
       /\ Qualifying(name, last_processed_id[name]) # {}
       /\ pollArgs' = Some(<<name, last_processed_id[name]>>)
       /\ polled' \in PollingQuery(name, last_processed_id[name])
       /\ delivered' = [delivered EXCEPT ![name] = @ \o IdsOf(polled')]
       /\ last_processed_id' =
            [last_processed_id EXCEPT ![name] = LargestId(polled', @)]
  /\ UNCHANGED <<chatVars, deliveryVars, syncAllVars, laterVars>>

PollNext ==
  \/ InsertMessage
  \/ ChatTick
  \/ ListPending
  \/ Heartbeat

PollSpec == QuietInit /\ [][PollNext]_vars

(***************************************************************************)
(* Properties of polling                                                   *)
(***************************************************************************)

\* A step in which a query is answered.
Answered == <<pollArgs, polled, delivered>>' # <<pollArgs, polled, delivered>>

\* C24: the query returns the messages that mention the name, exactly as
\* written, and whose id is above the cursor, each once and in ascending
\* order of id; an agent that moves its cursor to the largest id returned
\* has been given every message up to its cursor that mentions it, once.
C24_CursorCorrect ==
  /\ [][Answered =>
          LET name == pollArgs'[1][1]
              sinceId == pollArgs'[1][2]
          IN /\ Range(polled') =
                  {row \in agent_chat :
                     name \in Range(row.mentions) /\ row.id > sinceId}
             /\ \A i, j \in 1..Len(polled') :
                  i < j => polled'[i].id < polled'[j].id]_vars
  /\ [](\A name \in Recipients :
          /\ \A i, j \in 1..Len(delivered[name]) :
               i # j => delivered[name][i] # delivered[name][j]
          /\ Range(delivered[name]) =
               {row.id : row \in {r \in agent_chat :
                                    /\ name \in Range(r.mentions)
                                    /\ r.id <= last_processed_id[name]}})

(***************************************************************************)
(* The jobs protocol (part_002): the statements the plugin runs on the     *)
(* agent_jobs table and the completion message it inserts into agent_chat. *)
(***************************************************************************)

\* The job with this id, if there is one.
JobsOf(id) == {job \in agent_jobs : job.id = id}

\* WHERE id = $1 AND agent_name = $2: the rows the UPDATE statements match.
Matching(id, byAgent) ==
  {job \in agent_jobs : job.id = id /\ job.agent_name = byAgent}

\* How a statement ended. db.query resolves for an UPDATE whatever the
\* number of rows it matched, so no operation ends with an error.
JobFinished(op, id, byAgent, rowCount) ==
  /\ jobOps' = jobOps + 1
  /\ jobOutcome' = Some([op |-> op, id |-> id, actor |-> byAgent,
                         rowCount |-> rowCount, error |-> "none"])

\* On Message Receipt (part_002:84-91): after a message was inserted into
\* agent_chat, a job for one of the agents it mentions; status takes its
\* default 'pending' and notify_agents is the array of the sender.
OnMessageReceipt ==
  /\ Cardinality(agent_jobs) < MaxJobs
  /\ \E row \in agent_chat :
       \E recipientAgent \in Range(row.mentions) :
         agent_jobs' = agent_jobs \cup
           {[id |-> Cardinality(agent_jobs) + 1,
             message_id |-> row.id,
             agent_name |-> recipientAgent,
             requester_agent |-> row.sender,
             status |-> "pending",
             notify_agents |-> <<row.sender>>,
             deliverable_summary |-> None,
             started_at |-> None,
             completed_at |-> None]}
  /\ UNCHANGED <<jobOps, jobOutcome, notified, chatVars, pollVars,
                 deliveryVars, syncAllVars, hookVars,
                 pubVars>>

\* Job Status Updates (part_002:93-99):
\*   UPDATE agent_jobs SET status = 'in_progress', started_at = NOW()
\*   WHERE id = $1 AND agent_name = $2
JobStatusUpdate ==
  /\ jobOps < MaxJobOps
  /\ \E id \in JobIds, byAgent \in Mentionable :
       /\ agent_jobs' =
            (agent_jobs \ Matching(id, byAgent)) \cup
            {[job EXCEPT !.status = "in_progress",
                         !.started_at = Some(chatNow)] :
               job \in Matching(id, byAgent)}
       /\ JobFinished("in_progress", id, byAgent,
                      Cardinality(Matching(id, byAgent)))
  /\ UNCHANGED <<notified, chatVars, pollVars, deliveryVars, syncAllVars,
                 hookVars, pubVars>>

\* On Completion (part_002:101-120): the UPDATE to 'completed' with the
\* same WHERE clause, then, if the job the caller holds has a non-empty
\* notify_agents, the INSERT of the completion message.
OnCompletion ==
  /\ jobOps < MaxJobOps
  /\ \E job \in agent_jobs, byAgent \in Mentionable :
       /\ agent_jobs' =
            (agent_jobs \ Matching(job.id, byAgent)) \cup
            {[j EXCEPT !.status = "completed",
                       !.completed_at = Some(chatNow),
                       !.deliverable_summary = Some("done")] :
               j \in Matching(job.id, byAgent)}
       /\ IF Len(job.notify_agents) > 0
          THEN /\ agent_chat' = agent_chat \cup
                    {[id |-> NextId, sender |-> byAgent,
                      mentions |-> job.notify_agents,
                      created_at |-> chatNow]}
               /\ notified' = Append(notified, job.id)
          ELSE UNCHANGED <<agent_chat, notified>>
       /\ JobFinished("completed", job.id, byAgent,
                      Cardinality(Matching(job.id, byAgent)))
  /\ UNCHANGED <<chatNow, pollVars, deliveryVars, syncAllVars, hookVars,
                 pubVars>>

JobNext ==
  \/ InsertMessage
  \/ ChatTick
  \/ OnMessageReceipt
  \/ JobStatusUpdate
  \/ OnCompletion

JobSpec == QuietInit /\ [][JobNext]_vars

(***************************************************************************)
(* Properties of the jobs                                                  *)
(***************************************************************************)

\* A job operation has just run.
JobStep == jobOps' # jobOps

\* The job the operation that has just run was about, before it ran.
JobBefore == JobsOf(jobOutcome'[1].id)

\* How often a job is in the sequence.
TimesNotified(id) == Cardinality({i \in 1..Len(notified) : notified[i] = id})

\* C25: a job's completion message is inserted at most once, and exactly
\* once for a completed job that has a notify list; a completion of a job
\* that is already completed fails and inserts nothing.
C25_NotifiedOnce ==
  /\ [](\A job \in agent_jobs :
          /\ TimesNotified(job.id) <= 1
          /\ (job.status = "completed" /\ Len(job.notify_agents) > 0)
               => TimesNotified(job.id) = 1)
  /\ [][(/\ JobStep
         /\ jobOutcome'[1].op = "completed"
         /\ \E job \in JobBefore : job.status = "completed")
        => /\ jobOutcome'[1].error # "none"
           /\ agent_chat' = agent_chat]_vars

\* The changes of status the status flow has (part_002:71-77).
StatusFlow ==
  {<<"pending", "in_progress">>, <<"in_progress", "completed">>,
   <<"in_progress", "failed">>, <<"pending", "cancelled">>}

\* C26: a job's status changes only along the status flow; an operation that
\* asks for another change fails with InvalidStateTransition and leaves the
\* job as it was.
C26_StatusFlow ==
  [][/\ \A job \in agent_jobs : \A after \in JobsOf(job.id)' :
          after.status # job.status
            => <<job.status, after.status>> \in StatusFlow
     /\ JobStep =>
          \A job \in JobBefore :
            <<job.status, jobOutcome'[1].op>> \notin StatusFlow
              => /\ jobOutcome'[1].error = "InvalidStateTransition"
                 /\ job \in agent_jobs']_vars

\* C27: an operation asked for by an agent that does not own the job fails
\* with AuthorizationError, changes no field of the job and inserts no
\* completion message.
C27_OwnerOnly ==
  [][JobStep =>
       \A job \in JobBefore :
         job.agent_name # jobOutcome'[1].actor
           => /\ jobOutcome'[1].error = "AuthorizationError"
              /\ job \in agent_jobs'
              /\ agent_chat' = agent_chat
              /\ notified' = notified]_vars

(***************************************************************************)
(* The agent-config-db hook (handler.ts)                                   *)
(***************************************************************************)

\* The events the hook is called with: type and action, among them the two
\* it handles, and a context of the documented shape (handler.ts:113-114).
EventKinds ==
  {<<"session", "pre-spawn">>, <<"agent", "pre-run">>,
   <<"session", "pre-run">>, <<"message", "pre-spawn">>}

AgentIds ==
  {JsUndefined, JsNull, JsString(<<>>), JsString(<<" ">>),
   JsString(<<"\t", " ">>), JsString(<<"a">>), JsString(<<" ", "a", "\t">>),
   JsString(<<"A">>), JsString(<<"b">>)}

\* What the caller passed for model, fallbackModel and thinking.
CallerValues == {JsUndefined, JsString(<<"c">>)}

HookEvents ==
  {[type |-> kind[1], action |-> kind[2],
    context |-> Context(agentId, model, fallbackModel, thinking)] :
     kind \in EventKinds, agentId \in AgentIds, model \in CallerValues,
     fallbackModel \in CallerValues, thinking \in CallerValues}

\* The columns model, fallback_model and thinking: NULL or a string.
ColumnValues ==
  {JsNull, JsString(<<>>), JsString(<<" ">>), JsString(<<"m">>)}

HookRows ==
  {[name |-> name, model |-> model, fallback_model |-> fallback_model,
    thinking |-> thinking] :
     name \in {<<"a">>, <<"A">>}, model \in ColumnValues,
     fallback_model \in ColumnValues, thinking \in ColumnValues}

\* A second row whose name differs from the row's by case only.
Twin(row) == [row EXCEPT !.name = <<"A">>, !.model = JsString(<<"n">>)]

\* The tables: empty, one row, or two rows whose names differ by case.
HookTables ==
  {{}} \cup {{row} : row \in HookRows}
       \cup {{row, Twin(row)} : row \in {r \in HookRows : r.name = <<"a">>}}

\* String.prototype.trim
RECURSIVE trimStart(_)
trimStart(s) ==
  IF s # <<>> /\ Head(s) \in Whitespace THEN trimStart(Tail(s)) ELSE s

RECURSIVE trimEnd(_)
trimEnd(s) ==
  IF s # <<>> /\ s[Len(s)] \in Whitespace
  THEN trimEnd(SubSeq(s, 1, Len(s) - 1))
  ELSE s

trim(s) == trimEnd(trimStart(s))

\* LOWER() of SQL
LOWER(s) ==
  [i \in 1..Len(s) |-> CASE s[i] = "A" -> "a"
                         [] s[i] = "B" -> "b"
                         [] OTHER -> s[i]]

\* !value of JavaScript, for the values of the model.
Falsy(value) ==
  value.t \in {"undefined", "null"} \/ (value.t = "string" /\ value.s = <<>>)

\* isEffectivelyEmpty that tests for null and undefined only.
isEffectivelyEmpty_NullOnly(value) == value.t \in {"undefined", "null"}

\* isEffectivelyEmpty (handler.ts:100-108)
isEffectivelyEmpty(value) ==
  \/ value.t \in {"undefined", "null"}
  \/ value.t = "string" /\ trim(value.s) = <<>>

\* The test of handler.ts:130 without its second disjunct.
agentIdMissing_Falsy(agentId) == Falsy(agentId)

\* !agentId || (typeof agentId === "string" && agentId.trim() === "")
agentIdMissing(agentId) ==
  Falsy(agentId) \/ (agentId.t = "string" /\ trim(agentId.s) = <<>>)

\* The condition of handler.ts:118-123, negated: the hook handles the event.
Handled(e) ==
  \/ e.type = "session" /\ e.action = "pre-spawn"
  \/ e.type = "agent" /\ e.action = "pre-run"

\* The module is loaded: new Pool(...) returns the pool or throws, and then
\* pool stays null (handler.ts:16-34).
LoadModule ==
  /\ hookPc = "unloaded"
  /\ pool' \in BOOLEAN
  /\ hookPc' = "idle"
  /\ UNCHANGED <<agents, event, received, agentName, lookups, caught,
                 jobVars, pubVars, chatVars, pollVars, deliveryVars,
                 syncAllVars>>

\* The rows of the agents table, written before the hook is called.
WriteAgents ==
  /\ hookPc = "idle"
  /\ agents = {}
  /\ agents' \in HookTables \ {{}}
  /\ UNCHANGED <<hookPc, pool, event, received, agentName, lookups, caught,
                 jobVars, pubVars, chatVars, pollVars, deliveryVars,
                 syncAllVars>>

\* The host calls the hook with an event.
Receive ==
  /\ hookPc = "idle"
  /\ \E e \in HookEvents :
       /\ event' = e
       /\ received' = e
  /\ hookPc' = "handler"
  /\ UNCHANGED <<pool, agents, agentName, lookups, caught, jobVars, pubVars,
                 chatVars,
                 pollVars, deliveryVars, syncAllVars>>

\* handler, up to its await (handler.ts:116-146), and loadFromDatabase up
\* to its first await (handler.ts:42-49): with no pool it returns null and
\* handler returns at line 150.
handler ==
  /\ hookPc = "handler"
  /\ IF ~Handled(event)
     THEN /\ hookPc' = "done"
          /\ UNCHANGED <<event, agentName, lookups>>
     ELSE IF agentIdMissing(event.context.agentId)
     THEN /\ event' = [event EXCEPT
                         !.context.blocked = TRUE,
                         !.context.blockReason = "agentId is required"]
          /\ hookPc' = "done"
          /\ UNCHANGED <<agentName, lookups>>
     ELSE /\ agentName' = trim(event.context.agentId.s)
          /\ lookups' = lookups + 1
          /\ hookPc' = IF pool THEN "connect" ELSE "done"
          /\ UNCHANGED event
  /\ UNCHANGED <<pool, agents, received, caught, jobVars, pubVars, chatVars,
                 pollVars,
                 deliveryVars, syncAllVars>>

\* An error thrown inside loadFromDatabase's try: it is caught, null is
\* returned (handler.ts:73-89) and handler returns at line 150.
Caught ==
  /\ caught' = TRUE
  /\ hookPc' = "done"
  /\ UNCHANGED event

\* client = await pool.connect() (handler.ts:49)
poolConnect ==
  /\ hookPc = "connect"
  /\ \/ hookPc' = "set" /\ UNCHANGED <<event, caught>>
     \/ Caught
  /\ UNCHANGED <<pool, agents, received, agentName, lookups, jobVars, pubVars,
                 chatVars, pollVars, deliveryVars, syncAllVars>>

\* await client.query("SET LOCAL statement_timeout = '3000'")
setStatementTimeout ==
  /\ hookPc = "set"
  /\ \/ hookPc' = "select" /\ UNCHANGED <<event, caught>>
     \/ Caught
  /\ UNCHANGED <<pool, agents, received, agentName, lookups, jobVars, pubVars,
                 chatVars, pollVars, deliveryVars, syncAllVars>>

\* WHERE LOWER(name) = LOWER($1)
Named(table, name) == {row \in table : LOWER(row.name) = LOWER(name)}

\* handler.ts:156-169: the values of the row that are not effectively empty
\* replace the context's.
ApplyConfig(context, row) ==
  [context EXCEPT
     !.model = IF ~isEffectivelyEmpty(row.model) THEN row.model ELSE @,
     !.fallbackModel =
        IF ~isEffectivelyEmpty(row.fallback_model)
        THEN row.fallback_model ELSE @,
     !.thinking = IF ~isEffectivelyEmpty(row.thinking) THEN row.thinking ELSE @]

\* The SELECT ... LIMIT 1 (handler.ts:55-58), the rest of loadFromDatabase
\* and the rest of handler (handler.ts:148-176). With no row, null is
\* returned; LIMIT 1 without ORDER BY returns any one of the rows found.
selectConfig ==
  /\ hookPc = "select"
  /\ \/ /\ Named(agents, agentName) = {}
        /\ hookPc' = "done"
        /\ UNCHANGED <<event, caught>>
     \/ /\ \E row \in Named(agents, agentName) :
             event' = [event EXCEPT !.context = ApplyConfig(@, row)]
        /\ hookPc' = "done"
        /\ UNCHANGED caught
     \/ Caught
  /\ UNCHANGED <<pool, agents, received, agentName, lookups, jobVars, pubVars,
                 chatVars, pollVars, deliveryVars, syncAllVars>>

HookNext ==
  \/ LoadModule
  \/ WriteAgents
  \/ Receive
  \/ handler
  \/ poolConnect
  \/ setStatementTimeout
  \/ selectConfig

HookSpec == QuietInit /\ [][HookNext]_vars

(***************************************************************************)
(* Properties of the agent-config-db hook                                  *)
(***************************************************************************)

\* The event the hook was called with is session:pre-spawn or agent:pre-run.
SpawnEvent ==
  <<received.type, received.action>> \in
    {<<"session", "pre-spawn">>, <<"agent", "pre-run">>}

\* A value that is missing, empty or made of whitespace only.
Blank(value) ==
  \/ value.t \in {"undefined", "null"}
  \/ value.t = "string" /\ \A i \in 1..Len(value.s) : value.s[i] \in Whitespace

\* C28: for a session:pre-spawn or agent:pre-run event whose agentId is
\* missing, empty or whitespace-only the handler makes no database lookup,
\* leaves model, fallbackModel and thinking as they were and, when it has
\* returned, has set blocked with a blockReason; an event of any other type
\* or action is left as it was, with no lookup.
C28_MissingAgentIdBlocks ==
  /\ (SpawnEvent /\ Blank(received.context.agentId)) =>
       /\ lookups = 0
       /\ event.context.model = received.context.model
       /\ event.context.fallbackModel = received.context.fallbackModel
       /\ event.context.thinking = received.context.thinking
       /\ hookPc = "done" =>
            /\ event.context.blocked
            /\ event.context.blockReason # ""
  /\ ~SpawnEvent => (event = received /\ lookups = 0)

\* The handler has blocked an agent:pre-run event whose agentId is made of
\* a tab and a space, with a pool and a row in the table.
C28_Witness ==
  /\ hookPc = "done"
  /\ received.type = "agent" /\ received.action = "pre-run"
  /\ received.context.agentId = JsString(<<"\t", " ">>)
  /\ received.context.model = JsString(<<"c">>)
  /\ pool /\ agents # {}
  /\ event.context.blocked

\* What a field of the context is after the handler ran with this row.
Overridden(column, callers) == IF Blank(column) THEN callers ELSE column

\* C29: when the handler has returned for an event with a valid agentId the
\* spawn is not blocked; if there is no pool, the lookup failed or no row
\* has the agent's name, the context is as the caller passed it; otherwise
\* each of model, fallbackModel and thinking is the value of a row of that
\* name where that value is not null, empty or whitespace-only, and the
\* caller's value where it is.
C29_OverrideRule ==
  (hookPc = "done" /\ SpawnEvent /\ ~Blank(received.context.agentId)) =>
    LET before == received.context
        after == event.context
        found == Named(agents, trim(before.agentId.s))
    IN /\ ~after.blocked
       /\ IF ~pool \/ caught \/ found = {}
          THEN after = before
          ELSE \E row \in found :
                 after = [before EXCEPT
                   !.model = Overridden(row.model, @),
                   !.fallbackModel = Overridden(row.fallback_model, @),
                   !.thinking = Overridden(row.thinking, @)]

\* The handler has returned for agentId " a<tab>" and the row named "A":
\* the model is the row's, the fallback model (whitespace in the row) and
\* thinking (NULL in the row) are the caller's.
C29_Witness ==
  /\ hookPc = "done"
  /\ SpawnEvent
  /\ received.context.agentId = JsString(<<" ", "a", "\t">>)
  /\ received.context.model = JsString(<<"c">>)
  /\ received.context.fallbackModel = JsString(<<"c">>)
  /\ received.context.thinking = JsUndefined
  /\ agents = {[name |-> <<"A">>, model |-> JsString(<<"m">>),
                fallback_model |-> JsString(<<" ">>), thinking |-> JsNull]}
  /\ event.context.model = JsString(<<"m">>)
  /\ event.context.fallbackModel = JsString(<<"c">>)
  /\ event.context.thinking = JsUndefined

(***************************************************************************)
(* Concurrent calls of syncAgentsConfig (part_004:277-302) on one output   *)
(* path, one step per awaited operation; writeFile is a sequence of steps: *)
(* the open, which creates or truncates the file, and the writes.          *)
(***************************************************************************)

\* What the steps of the concurrent calls leave alone.
nonPubVars ==
  <<callVars, faults, callerVars, builderVars, reconVars, deliveryVars,
    chatVars, pollVars, jobVars, hookVars>>

\* newContent of the call (part_004:286-288), the same text as `content`
\* in writeAgentsJsonAtomically (part_004:265).
PubContent(p) ==
  Stringify(buildAgentsJson(pubRows[p],
                            Some(buildSystemDefaults(pubConfigRows[p]))))

\* The temporary name with no UUID in it: the same for every call.
TmpFileName_NoUuid(uuid) == 0

\* path.join(dir, `${path.basename(filePath)}.${crypto.randomUUID()}.tmp`):
\* the names differ by the UUID only.
TmpFileName(uuid) == uuid

\* The text of a file after `chunk` was written at `offset`; what lies
\* between the end of the file and the offset reads as empty lines.
WriteAt(old, offset, chunk) ==
  [i \in 1..Max2(Len(old), offset + Len(chunk)) |->
     IF i > offset /\ i <= offset + Len(chunk) THEN chunk[i - offset]
     ELSE IF i <= Len(old) THEN old[i]
     ELSE Line(0, <<>>)]

\* How much one write takes the offset forward: up to MaxPartial at first,
\* then the rest of the text.
NextOffset(offset, text) ==
  IF offset < Min2(MaxPartial, Len(text) - 1)
  THEN Min2(MaxPartial, Len(text) - 1)
  ELSE Len(text)

PubStep(p, to) == pubPc' = [pubPc EXCEPT ![p] = to]

\* A call starts, and its fetchAgentRows (part_004:224-227) is answered.
PubFetchAgentRows(p) ==
  /\ pubPc[p] = "idle"
  /\ pubRows' = [pubRows EXCEPT ![p] = AGENTS_QUERY(agentsTable)]
  /\ PubStep(p, "fetchConfig")
  /\ UNCHANGED <<pubConfigRows, pubTmpFile, pubOffset, pubResult, existing,
                 storeVars, fileVars, nonPubVars>>

\* fetchSystemConfig (part_004:233-246)
PubFetchSystemConfig(p) ==
  /\ pubPc[p] = "fetchConfig"
  /\ pubConfigRows' =
       [pubConfigRows EXCEPT ![p] = SYSTEM_CONFIG_QUERY(configTable)]
  /\ PubStep(p, "readFile")
  /\ UNCHANGED <<pubRows, pubTmpFile, pubOffset, pubResult, existing,
                 storeVars, fileVars, nonPubVars>>

\* The comparison with the existing file (part_004:290-298).
PubCompareExisting(p) ==
  /\ pubPc[p] = "readFile"
  /\ IF target # None /\ target[1] = PubContent(p)
     THEN /\ PubStep(p, "done")
          /\ pubResult' = [pubResult EXCEPT ![p] = "false"]
     ELSE /\ PubStep(p, "mkdir")
          /\ UNCHANGED pubResult
  /\ UNCHANGED <<pubRows, pubConfigRows, pubTmpFile, pubOffset, existing,
                 storeVars, fileVars, nonPubVars>>

\* mkdir(dir, {recursive: true}), then the temporary name with a fresh UUID
\* (part_004:257-263).
PubMkdir(p) ==
  /\ pubPc[p] = "mkdir"
  /\ dirExists' = TRUE
  /\ uuids' = uuids + 1
  /\ pubTmpFile' = [pubTmpFile EXCEPT ![p] = TmpFileName(uuids + 1)]
  /\ PubStep(p, "open")
  /\ UNCHANGED <<pubRows, pubConfigRows, pubOffset, pubResult, existing,
                 storeVars, target, tmpFiles, nonPubVars>>

\* writeFile(tmpFile, content) (part_004:267) opens the file for writing:
\* the file is created, or emptied if there is one of that name.
PubOpen(p) ==
  /\ pubPc[p] = "open"
  /\ tmpFiles' = WithTmp(pubTmpFile[p], <<>>)
  /\ pubOffset' = [pubOffset EXCEPT ![p] = 0]
  /\ PubStep(p, "write")
  /\ UNCHANGED <<pubRows, pubConfigRows, pubTmpFile, pubResult, existing,
                 storeVars, dirExists, target, uuids, nonPubVars>>

\* writeFile writes the next part of the text at its offset and, when the
\* whole text is written, closes the file.  A file that has lost its name
\* since the open has no entry in the directory to change.
PubWrite(p) ==
  /\ pubPc[p] = "write"
  /\ LET text == PubContent(p)
         upTo == NextOffset(pubOffset[p], text)
         chunk == SubSeq(text, pubOffset[p] + 1, upTo)
     IN /\ IF TmpExists(pubTmpFile[p])
           THEN tmpFiles' =
                  WithTmp(pubTmpFile[p],
                          WriteAt(TmpContent(pubTmpFile[p]), pubOffset[p],
                                  chunk))
           ELSE UNCHANGED tmpFiles
        /\ pubOffset' = [pubOffset EXCEPT ![p] = upTo]
        /\ PubStep(p, IF upTo = Len(text) THEN "rename" ELSE "write")
  /\ UNCHANGED <<pubRows, pubConfigRows, pubTmpFile, pubResult, existing,
                 storeVars, dirExists, target, uuids, nonPubVars>>

\* rename(tmpFile, filePath) (part_004:268): the file at filePath becomes
\* the temporary file in one step; with no file of that name it rejects.
PubRename(p) ==
  /\ pubPc[p] = "rename"
  /\ IF TmpExists(pubTmpFile[p])
     THEN /\ target' = Some(TmpContent(pubTmpFile[p]))
          /\ tmpFiles' = {f \in tmpFiles : f.name # pubTmpFile[p]}
          /\ pubResult' = [pubResult EXCEPT ![p] = "true"]
     ELSE /\ pubResult' = [pubResult EXCEPT ![p] = "threw"]
          /\ UNCHANGED <<target, tmpFiles>>
  /\ PubStep(p, "done")
  /\ UNCHANGED <<pubRows, pubConfigRows, pubTmpFile, pubOffset, existing,
                 storeVars, dirExists, uuids, nonPubVars>>

PublishNext ==
  \/ StoreWrite
  \/ \E p \in Publishers : PubFetchAgentRows(p)
  \/ \E p \in Publishers : PubFetchSystemConfig(p)
  \/ \E p \in Publishers : PubCompareExisting(p)
  \/ \E p \in Publishers : PubMkdir(p)
  \/ \E p \in Publishers : PubOpen(p)
  \/ \E p \in Publishers : PubWrite(p)
  \/ \E p \in Publishers : PubRename(p)

\* The tables and the file as installed, and no call started.
PublishInit ==
  /\ SyncInit
  /\ BuilderIdle
  /\ DeliveryIdle /\ ChatIdle /\ PollIdle
  /\ JobIdle /\ HookIdle
  /\ PubState(target)

PublishSpec == PublishInit /\ [][PublishNext]_vars

(***************************************************************************)
(* Properties of concurrent calls                                          *)
(***************************************************************************)

\* The calls that have a temporary file of their own in hand.
Writing == {p \in Publishers : pubPc[p] \in {"open", "write", "rename"}}

\* The calls whose text is built.
Built == {p \in Publishers : pubPc[p] \in {"readFile", "mkdir", "open", "write",
                                           "rename", "done"}}

\* C30: the calls that have a temporary file in hand have different ones;
\* every temporary file is the file of one such call and holds the start of
\* that call's text, as far as that call has written it; and the file at
\* the output path is the file that was there before the calls, or the whole
\* text of one call.
C30_TargetNeverMixed ==
  /\ \A p, q \in Writing : p # q => pubTmpFile[p] # pubTmpFile[q]
  /\ \A f \in tmpFiles :
       \E p \in Writing :
         /\ pubTmpFile[p] = f.name
         /\ f.content = Prefix(PubContent(p), pubOffset[p])
  /\ \/ target = existing
     \/ \E p \in Built : target = Some(PubContent(p))

\* Two calls with different texts: the file at the output path is the
\* whole text of the first, which is not what was there before, while the
\* second has written part of its own text to its temporary file.
C30_Witness ==
  /\ pubPc[1] = "done" /\ pubResult[1] = "true"
  /\ pubPc[2] = "write" /\ pubOffset[2] > 0
  /\ PubContent(1) # PubContent(2)
  /\ target = Some(PubContent(1))
  /\ target # existing
  /\ existing # None

====
